---- MODULE Spec2Model ----
(***************************************************************************)
(* A model of the region-extraction backend (src/backend/main.py and       *)
(* src/backend/database.py): the coordinate mapping get_canonical_bbox,    *)
(* the fixed-column clustering inside extract_from_region, the schema      *)
(* matching of validate_data, and the strategy fallback of /extract.       *)
(*                                                                         *)
(* Numbers: the Python code computes in IEEE doubles.  The model computes  *)
(* in exact rationals <<n, d>> (d > 0, lowest terms).  The clamping and    *)
(* ordering properties do not depend on rounding; a comparison that sits   *)
(* exactly on a threshold (a relative scale difference of exactly 2%) is   *)
(* decided by rounding in the code and is kept out of the input sets.      *)
(***************************************************************************)
EXTENDS Integers, Sequences, FiniteSets, TLC

VARIABLES
    bb_in,      \* arguments of one get_canonical_bbox call
    bb_out,     \* its return value, or NoValue before the call
    vd_table,   \* validate_data: the table name
    vd_data,    \* validate_data: the list of extracted records
    vd_out,     \* validate_data: its return value, Pending before the call
    tk_words,       \* the words of the cropped region, as extract_words gave them
    tk_words_again, \* the same words in the order of a second run
    tk_run,         \* what the clustering of tk_words left behind
    tk_run_again,   \* what the clustering of tk_words_again left behind
    ex_request,     \* /extract: the file name and the selection
    ex_tesseract,   \* whether the OCR engine is installed
    ex_pc,          \* how far the handler has come
    ex_native,      \* what extract_from_region returned
    ex_raw_data,    \* the handler's raw_data
    ex_native_quality_low,  \* the handler's native_quality_low
    ex_ocr_data,    \* what each call of extract_with_ocr returned, in order
    ex_cropped,     \* the strategies that have cropped the document
    ex_response,    \* the answer, NoResponse until there is one
    ex_calls,       \* the strategies and the validation called so far, in order
    gm_call,        \* parse_with_gemini: what the LLM call does
    gm_label,       \* parse_with_gemini: the label
    gm_out,         \* parse_with_gemini: its outcome, NotParsed before the call
    mp_text,        \* parse_text_manually: the text
    mp_out,         \* parse_text_manually: its records, NotParsedManually before the call
    cc_requests,    \* two requests: what each asks for
    cc_postgres,    \* database.py 10-19: IS_POSTGRES
    cc_pc,          \* two requests: "received", "sending" or "done"
    cc_metadata,    \* database.py 21: the tables held by the module's MetaData
    cc_debug_crop,  \* the request whose crop DEBUG_CROP.png holds, 0 for none
    cc_export_files, \* main.py 924: the rows in the export file of each table
    cc_out          \* two requests: the response of each

bbVars == <<bb_in, bb_out>>
vdVars == <<vd_table, vd_data, vd_out>>
tkVars == <<tk_words, tk_words_again, tk_run, tk_run_again>>
exVars == <<ex_request, ex_tesseract, ex_pc, ex_native, ex_raw_data,
           ex_native_quality_low, ex_ocr_data, ex_cropped, ex_response,
           ex_calls>>
gmVars == <<gm_call, gm_label, gm_out>>
mpVars == <<mp_text, mp_out>>
ccVars == <<cc_requests, cc_postgres, cc_pc, cc_metadata, cc_debug_crop,
           cc_export_files, cc_out>>
vars == <<bbVars, vdVars, tkVars, exVars, gmVars, mpVars, ccVars>>

NoValue == "none"

(***************************************************************************)
(* Exact rational arithmetic                                               *)
(***************************************************************************)
Abs(i) == IF i < 0 THEN -i ELSE i

RECURSIVE Gcd(_, _)
Gcd(a, b) == IF b = 0 THEN a ELSE Gcd(b, a % b)

Norm(n, d) ==
    IF n = 0 THEN <<0, 1>>
    ELSE LET s == IF d < 0 THEN -1 ELSE 1
             g == Gcd(Abs(n), Abs(d))
         IN  <<(s * n) \div g, (s * d) \div g>>

R(i) == <<i, 1>>
RAdd(a, b) == Norm(a[1] * b[2] + b[1] * a[2], a[2] * b[2])
RSub(a, b) == Norm(a[1] * b[2] - b[1] * a[2], a[2] * b[2])
RMul(a, b) == Norm(a[1] * b[1], a[2] * b[2])
RDiv(a, b) == Norm(a[1] * b[2], a[2] * b[1])
RAbs(a) == <<Abs(a[1]), a[2]>>
RLe(a, b) == a[1] * b[2] <= b[1] * a[2]
RLt(a, b) == a[1] * b[2] < b[1] * a[2]
RMin(a, b) == IF RLe(a, b) THEN a ELSE b
RMax(a, b) == IF RLe(b, a) THEN a ELSE b

(***************************************************************************)
(* get_canonical_bbox (main.py 216-265).  All arguments are rationals.     *)
(***************************************************************************)
\* main.py 249: the literal 0.02
MismatchTolerance == <<2, 100>>

\* main.py 249: abs(scale_x - scale_y) / scale_x > 0.02
ScaleMismatch(scale_x, scale_y) ==
    RLt(MismatchTolerance, RDiv(RAbs(RSub(scale_x, scale_y)), scale_x))

\* the same function with the "trust width" override left out
EffectiveScaleYNoOverride(scale_x, scale_y) == scale_y

\* main.py 249-251: scale_y is replaced by scale_x on a mismatch
EffectiveScaleY(scale_x, scale_y) ==
    IF ScaleMismatch(scale_x, scale_y) THEN scale_x ELSE scale_y

\* the far corner clamped from above only
ClampFarUnordered(near, far, limit) == RMin(far, limit)

\* main.py 260-261: max(0.0, min(v, limit))
ClampNear(v, limit) == RMax(R(0), RMin(v, limit))

\* main.py 262-263: max(near, min(far, limit))
ClampFar(near, far, limit) == RMax(near, RMin(far, limit))

get_canonical_bbox(page_w, page_h, view_w, view_h, sel_x, sel_y, sel_w, sel_h) ==
    IF RLe(view_w, R(0)) \/ RLe(view_h, R(0))
    THEN <<R(0), R(0), R(0), R(0)>>
    ELSE LET scale_x == RDiv(page_w, view_w)
             scale_y == EffectiveScaleY(scale_x, RDiv(page_h, view_h))
             x0      == ClampNear(RMul(sel_x, scale_x), page_w)
             top     == ClampNear(RMul(sel_y, scale_y), page_h)
             x1      == ClampFar(x0, RMul(RAdd(sel_x, sel_w), scale_x), page_w)
             bottom  == ClampFar(top, RMul(RAdd(sel_y, sel_h), scale_y), page_h)
         IN  <<x0, top, x1, bottom>>

(***************************************************************************)
(* Inputs of the coordinate-mapping specification                          *)
(***************************************************************************)
PageDims == {<<1000, 500>>, <<50, 50>>}
ViewWidths == {0, 50, 500}
ViewHeights == {0, 50, 51, 300}
SelXs == {-2, 0, 3}
SelYs == {-2, 0, 1}
SelWidths == {-1, 0, 4, 600}
SelHeights == {-1, 0, 1, 600}

BboxInputs ==
    [page : PageDims, view_w : ViewWidths, view_h : ViewHeights,
     x : SelXs, y : SelYs, width : SelWidths, height : SelHeights]

BboxOf(a) ==
    get_canonical_bbox(R(a.page[1]), R(a.page[2]), R(a.view_w), R(a.view_h),
                       R(a.x), R(a.y), R(a.width), R(a.height))

IdleBbox == bb_in = NoValue /\ bb_out = NoValue
IdleValidate == vd_table = NoValue /\ vd_data = NoValue /\ vd_out = NoValue
IdleTable ==
    /\ tk_words = NoValue /\ tk_words_again = NoValue
    /\ tk_run = NoValue /\ tk_run_again = NoValue
IdleExtract ==
    /\ ex_request = NoValue /\ ex_tesseract = NoValue /\ ex_pc = NoValue
    /\ ex_native = NoValue /\ ex_raw_data = NoValue
    /\ ex_native_quality_low = NoValue /\ ex_ocr_data = NoValue
    /\ ex_cropped = NoValue /\ ex_response = NoValue
    /\ ex_calls = NoValue
IdleGemini == gm_call = NoValue /\ gm_label = NoValue /\ gm_out = NoValue
IdleManual == mp_text = NoValue /\ mp_out = NoValue
IdleConcurrent ==
    /\ cc_requests = NoValue /\ cc_postgres = NoValue /\ cc_pc = NoValue
    /\ cc_metadata = NoValue /\ cc_debug_crop = NoValue
    /\ cc_export_files = NoValue /\ cc_out = NoValue

InitBbox ==
    /\ bb_in \in BboxInputs
    /\ bb_out = NoValue
    /\ IdleValidate /\ IdleTable /\ IdleExtract /\ IdleGemini /\ IdleManual /\ IdleConcurrent

CallGetCanonicalBbox ==
    /\ bb_out = NoValue
    /\ bb_out' = BboxOf(bb_in)
    /\ UNCHANGED <<bb_in, vdVars, tkVars, exVars, gmVars, mpVars, ccVars>>

NextBbox == CallGetCanonicalBbox

SpecBbox == InitBbox /\ [][NextBbox]_vars

(***************************************************************************)
(* Claims about get_canonical_bbox                                         *)
(***************************************************************************)
BboxCalled == bb_out # NoValue
PositiveView == bb_in.view_w > 0 /\ bb_in.view_h > 0

\* C1: with positive page and view dimensions and any selection, the
\* returned bbox satisfies 0 <= x0 <= x1 <= page_w and
\* 0 <= top <= bottom <= page_h.
C1_BboxWithinPage ==
    (BboxCalled /\ PositiveView) =>
        /\ RLe(R(0), bb_out[1]) /\ RLe(bb_out[1], bb_out[3])
        /\ RLe(bb_out[3], R(bb_in.page[1]))
        /\ RLe(R(0), bb_out[2]) /\ RLe(bb_out[2], bb_out[4])
        /\ RLe(bb_out[4], R(bb_in.page[2]))

\* a call whose selection has a negative width, starts inside the page and
\* is mapped with positive view dimensions
C1_Witness ==
    /\ BboxCalled /\ PositiveView
    /\ bb_in.x = 3 /\ bb_in.width = -1 /\ bb_in.height = 600
    /\ bb_out[1] = bb_out[3] /\ RLt(R(0), bb_out[1])

\* relative difference of page_w/view_w and page_h/view_h above 2%, in
\* integers: |pw*vh - ph*vw| / (pw*vh) > 2/100
ExceedsTwoPercent(a) ==
    100 * Abs(a.page[1] * a.view_h - a.page[2] * a.view_w)
        > 2 * a.page[1] * a.view_h

ClampTo(v, lo, hi) == IF RLt(v, lo) THEN lo ELSE IF RLt(hi, v) THEN hi ELSE v

\* the vertical scale the claim prescribes, as numerator and denominator
PrescribedScaleY(a) ==
    IF ExceedsTwoPercent(a) THEN <<a.page[1], a.view_w>>
    ELSE <<a.page[2], a.view_h>>

C2_WithinToleranceReached ==
    /\ BboxCalled
    /\ bb_in.page = <<50, 50>> /\ bb_in.view_w = 50 /\ bb_in.view_h = 51
    /\ bb_in.y = 1 /\ bb_out[2] = <<50, 51>>

(***************************************************************************)
(* Strings.  A string is a sequence of one-character strings, so that      *)
(* upper-casing, filtering and substring search are computed as the code   *)
(* computes them.                                                          *)
(***************************************************************************)
LowerLetters == <<"a", "b", "c", "d", "e", "f", "g", "h", "i", "j", "k", "l", "m", "n", "o", "p", "q", "r", "s", "t", "u", "v", "w", "x", "y", "z">>
UpperLetters == <<"A", "B", "C", "D", "E", "F", "G", "H", "I", "J", "K", "L", "M", "N", "O", "P", "Q", "R", "S", "T", "U", "V", "W", "X", "Y", "Z">>
DigitChars == {"0", "1", "2", "3", "4", "5", "6", "7", "8", "9"}

\* main.py 658: the literal "_warning"
Key_warning == <<"_", "w", "a", "r", "n", "i", "n", "g">>
\* main.py 658: the literal "_error"
Key_error == <<"_", "e", "r", "r", "o", "r">>
\* main.py 661, 720: the literal "_status"
Key_status == <<"_", "s", "t", "a", "t", "u", "s">>
\* main.py 721: the literal "_errors"
Key_errors == <<"_", "e", "r", "r", "o", "r", "s">>
\* main.py 621, 769: the literal "raw_text"
Key_raw_text == <<"r", "a", "w", "_", "t", "e", "x", "t">>
\* main.py 688: the literal "type"
Lit_type == <<"t", "y", "p", "e">>
\* main.py 688: the literal "casing"
Lit_casing == <<"c", "a", "s", "i", "n", "g">>
\* main.py 688-689: the literal "CASING_TYPE"
Lit_CASING_TYPE == <<"C", "A", "S", "I", "N", "G", "_", "T", "Y", "P", "E">>
\* main.py 690: the literal "depth"
Lit_depth == <<"d", "e", "p", "t", "h">>
\* main.py 690: the literal "bottom"
Lit_bottom == <<"b", "o", "t", "t", "o", "m">>
\* main.py 690-691: the literal "CASING_BOTTOM"
Lit_CASING_BOTTOM == <<"C", "A", "S", "I", "N", "G", "_", "B", "O", "T", "T", "O", "M">>
\* main.py 692: the literal "top"
Lit_top == <<"t", "o", "p">>
\* main.py 692-693: the literal "CASING_TOP"
Lit_CASING_TOP == <<"C", "A", "S", "I", "N", "G", "_", "T", "O", "P">>
\* main.py 694: the literal "diameter"
Lit_diameter == <<"d", "i", "a", "m", "e", "t", "e", "r">>
\* main.py 694: the literal "od"
Lit_od == <<"o", "d">>
\* main.py 694-695: the literal "OUTER_DIAMETER"
Lit_OUTER_DIAMETER == <<"O", "U", "T", "E", "R", "_", "D", "I", "A", "M", "E", "T", "E", "R">>
\* main.py 696: the literal "length"
Lit_length == <<"l", "e", "n", "g", "t", "h">>
\* main.py 696, 698: the literal "grade"
Lit_grade == <<"g", "r", "a", "d", "e">>
\* main.py 696-697: the literal "STEEL_GRADE"
Lit_STEEL_GRADE == <<"S", "T", "E", "E", "L", "_", "G", "R", "A", "D", "E">>
\* main.py 698: the literal "material"
Lit_material == <<"m", "a", "t", "e", "r", "i", "a", "l">>
\* main.py 698-699: the literal "MATERIAL_TYPE"
Lit_MATERIAL_TYPE == <<"M", "A", "T", "E", "R", "I", "A", "L", "_", "T", "Y", "P", "E">>

\* main.py 626-629
IGNORED_COLUMNS == {
    <<"I", "D">>,
    <<"M", "O", "D", "E", "L">>,
    <<"I", "N", "S", "E", "R", "T", "_", "D", "A", "T", "E">>,
    <<"M", "A", "T", "C", "H", "_", "P", "E", "R", "C", "E", "N", "T">>,
    <<"V", "E", "C", "T", "O", "R", "_", "I", "D", "S">>,
    <<"P", "A", "G", "E", "_", "N", "U", "M", "B", "E", "R", "S">>,
    <<"M", "A", "T", "C", "H", "_", "I", "D">>
}

(***************************************************************************)
(* The reflected schemas: the column names of three tables in declaration  *)
(* order (database.py 33-123).  SQLite reports the names as declared;      *)
(* PostgreSQL folds unquoted names to lower case.                          *)
(***************************************************************************)
\* database.py 67-88, names as declared
Schema_wcr_casing == <<
     <<"U", "W", "I">>,
     <<"C", "A", "S", "I", "N", "G", "_", "T", "Y", "P", "E">>,
     <<"C", "A", "S", "I", "N", "G", "_", "L", "I", "N", "E", "R", "_", "N", "A", "M", "E">>,
     <<"C", "A", "S", "I", "N", "G", "_", "S", "T", "A", "R", "T", "_", "D", "A", "T", "E">>,
     <<"C", "A", "S", "I", "N", "G", "_", "T", "O", "P">>,
     <<"C", "A", "S", "I", "N", "G", "_", "B", "O", "T", "T", "O", "M">>,
     <<"O", "U", "T", "E", "R", "_", "D", "I", "A", "M", "E", "T", "E", "R">>,
     <<"C", "A", "S", "I", "N", "G", "_", "S", "H", "O", "E", "_", "L", "E", "N", "G", "T", "H">>,
     <<"F", "L", "O", "A", "T", "_", "C", "O", "L", "L", "A", "R">>,
     <<"M", "A", "T", "E", "R", "I", "A", "L", "_", "T", "Y", "P", "E">>,
     <<"W", "E", "I", "G", "H", "T">>,
     <<"S", "T", "E", "E", "L", "_", "G", "R", "A", "D", "E">>,
     <<"R", "E", "M", "A", "R", "K", "S">>,
     <<"I", "D">>,
     <<"M", "O", "D", "E", "L">>,
     <<"I", "N", "S", "E", "R", "T", "_", "D", "A", "T", "E">>,
     <<"M", "A", "T", "C", "H", "_", "P", "E", "R", "C", "E", "N", "T">>,
     <<"V", "E", "C", "T", "O", "R", "_", "I", "D", "S">>,
     <<"P", "A", "G", "E", "_", "N", "U", "M", "B", "E", "R", "S">>,
     <<"M", "A", "T", "C", "H", "_", "I", "D">>
    >>

\* database.py 33-65, names as declared
Schema_wcr_wellhead == <<
     <<"U", "W", "I">>,
     <<"W", "E", "L", "L", "_", "N", "A", "M", "E">>,
     <<"F", "I", "E", "L", "D">>,
     <<"R", "E", "L", "E", "A", "S", "E", "_", "N", "A", "M", "E">>,
     <<"L", "O", "C", "A", "T", "I", "O", "N", "_", "T", "Y", "P", "E">>,
     <<"B", "O", "T", "T", "O", "M", "_", "L", "O", "N", "G">>,
     <<"B", "O", "T", "T", "O", "M", "_", "L", "A", "T">>,
     <<"S", "U", "R", "F", "A", "C", "E", "_", "L", "O", "N", "G">>,
     <<"S", "U", "R", "F", "A", "C", "E", "_", "L", "A", "T">>,
     <<"C", "A", "T", "E", "G", "O", "R", "Y">>,
     <<"W", "E", "L", "L", "_", "P", "R", "O", "F", "I", "L", "E">>,
     <<"T", "A", "R", "G", "E", "T", "_", "D", "E", "P", "T", "H">>,
     <<"D", "R", "I", "L", "L", "E", "D", "_", "D", "E", "P", "T", "H">>,
     <<"L", "O", "G", "G", "E", "R", "S", "_", "D", "E", "P", "T", "H">>,
     <<"K", "_", "B">>,
     <<"G", "_", "L">>,
     <<"R", "I", "G">>,
     <<"S", "P", "U", "D", "_", "D", "A", "T", "E">>,
     <<"H", "E", "R", "M", "E", "T", "I", "C", "A", "L", "_", "T", "E", "S", "T", "_", "D", "A", "T", "E">>,
     <<"D", "R", "I", "L", "L", "I", "N", "G", "_", "C", "O", "M", "P", "L", "E", "T", "E", "D", "_", "D", "A", "T", "E">>,
     <<"R", "I", "G", "_", "R", "E", "L", "E", "A", "S", "E", "D", "_", "D", "A", "T", "E">>,
     <<"F", "O", "R", "M", "A", "T", "I", "O", "N", "_", "A", "T", "_", "T", "D">>,
     <<"R", "E", "L", "E", "A", "S", "E", "_", "O", "R", "D", "E", "R", "_", "N", "O">>,
     <<"O", "B", "J", "E", "C", "T", "I", "V", "E">>,
     <<"S", "T", "A", "T", "U", "S">>,
     <<"I", "D">>,
     <<"M", "O", "D", "E", "L">>,
     <<"I", "N", "S", "E", "R", "T", "_", "D", "A", "T", "E">>,
     <<"M", "A", "T", "C", "H", "_", "P", "E", "R", "C", "E", "N", "T">>,
     <<"V", "E", "C", "T", "O", "R", "_", "I", "D", "S">>,
     <<"P", "A", "G", "E", "_", "N", "U", "M", "B", "E", "R", "S">>
    >>

\* database.py 106-123, names folded to lower case
Schema_wcr_dirsrvy == <<
     <<"i", "d">>,
     <<"u", "w", "i">>,
     <<"m", "d">>,
     <<"a", "n", "g", "l", "e", "_", "i", "n", "c", "l", "i", "n", "a", "t", "i", "o", "n">>,
     <<"a", "z", "i", "m", "u", "t", "h">>,
     <<"n", "s">>,
     <<"e", "w">>,
     <<"n", "e", "t", "_", "d", "r", "i", "f", "t">>,
     <<"n", "e", "t", "_", "d", "i", "r", "e", "c", "t", "i", "o", "n", "_", "a", "n", "g", "l", "e">>,
     <<"v", "e", "r", "t", "i", "c", "a", "l", "_", "s", "h", "o", "r", "t", "e", "n", "i", "n", "g">>,
     <<"m", "o", "d", "e", "l">>,
     <<"i", "n", "s", "e", "r", "t", "_", "d", "a", "t", "e">>,
     <<"m", "a", "t", "c", "h", "_", "p", "e", "r", "c", "e", "n", "t">>,
     <<"v", "e", "c", "t", "o", "r", "_", "i", "d", "s">>,
     <<"p", "a", "g", "e", "_", "n", "u", "m", "b", "e", "r", "s">>,
     <<"m", "a", "t", "c", "h", "_", "i", "d">>
    >>

(***************************************************************************)
(* Raw field names the records of the validation specification draw from   *)
(***************************************************************************)
Raw_u_w_i == <<"u", " ", "w", " ", "i">>
Raw_UWI == <<"U", "W", "I">>
Raw_uwi_no == <<"u", "w", "i", "_", "n", "o">>
Raw_Field == <<"F", "i", "e", "l", "d", ":">>
Raw_k_b == <<"k", ".", "b">>
Raw_md == <<"m", "d">>
Raw_md_ft == <<"m", "d", "_", "f", "t">>
Raw_od == <<"o", "d">>
Raw_Depth == <<"D", "e", "p", "t", "h">>
Raw_grade == <<"g", "r", "a", "d", "e">>
Raw_zzz == <<"z", "z", "z">>
Raw_id == <<"i", "d">>
Raw_source == <<"_", "s", "o", "u", "r", "c", "e">>
Raw_rig_released_date == <<"r", "i", "g", " ", "r", "e", "l", "e", "a", "s", "e", "d", " ", "d", "a", "t", "e">>
Raw_Material_Type == <<"M", "a", "t", "e", "r", "i", "a", "l", " ", "T", "y", "p", "e">>
Raw_uwi_type == <<"u", "w", "i", "_", "t", "y", "p", "e">>
RawKeys == {Raw_u_w_i, Raw_UWI, Raw_uwi_no, Raw_Field, Raw_k_b, Raw_md, Raw_md_ft, Raw_od, Raw_Depth, Raw_grade, Raw_zzz, Raw_id, Raw_source,
            Raw_rig_released_date, Raw_Material_Type, Raw_uwi_type,
            Key_warning, Key_error, Key_raw_text}

LowerSet == {LowerLetters[i] : i \in DOMAIN LowerLetters}
UpperSet == {UpperLetters[i] : i \in DOMAIN UpperLetters}
IsLower(c) == c \in LowerSet
IsUpper(c) == c \in UpperSet

\* str.upper() and str.lower() of the letters, as tables
UpperOf == [c \in LowerSet |->
              UpperLetters[CHOOSE i \in DOMAIN LowerLetters : LowerLetters[i] = c]]
LowerOf == [c \in UpperSet |->
              LowerLetters[CHOOSE i \in DOMAIN UpperLetters : UpperLetters[i] = c]]

\* str.upper() and str.lower(), one character at a time
Upper(c) == IF c \in DOMAIN UpperOf THEN UpperOf[c] ELSE c
Lower(c) == IF c \in DOMAIN LowerOf THEN LowerOf[c] ELSE c
UpperSeq(s) == [i \in DOMAIN s |-> Upper(s[i])]
LowerSeq(s) == [i \in DOMAIN s |-> Lower(s[i])]

\* str.isalnum() of one character
IsAlnum(c) == IsLower(c) \/ IsUpper(c) \/ c \in DigitChars

\* Python's "needle in hay" on strings
Contains(needle, hay) ==
    \E i \in 0..(Len(hay) - Len(needle)) :
        SubSeq(hay, i + 1, i + Len(needle)) = needle

\* str.startswith("_")
StartsWithUnderscore(k) == Len(k) > 0 /\ k[1] = "_"

SetMax(S) == CHOOSE m \in S : \A n \in S : n <= m
SetMin(S) == CHOOSE m \in S : \A n \in S : m <= n

(***************************************************************************)
(* get_table_schema (database.py 225-251) over a database given as a       *)
(* function from table name to column list.                                *)
(***************************************************************************)
Database ==
    [t \in {"wcr_casing", "wcr_wellhead", "wcr_dirsrvy"} |->
        CASE t = "wcr_casing" -> Schema_wcr_casing
          [] t = "wcr_wellhead" -> Schema_wcr_wellhead
          [] t = "wcr_dirsrvy" -> Schema_wcr_dirsrvy]

\* database.py 238-239, 247-248: an unknown table raises ValueError
get_table_schema(table_name) ==
    IF table_name \in DOMAIN Database
    THEN [found |-> TRUE, columns |-> Database[table_name]]
    ELSE [found |-> FALSE, columns |-> <<>>]

(***************************************************************************)
(* validate_data (main.py 631-724)                                         *)
(***************************************************************************)
\* a column name that is None (or empty, which Python treats alike in
\* "if not real_col_name")
NoMatch == <<>>
NoneValue == "None"

\* upper-casing alone, punctuation kept
normalize_key_keep_punctuation(k) == UpperSeq(k)

\* main.py 640-642
normalize_key(k) == SelectSeq(UpperSeq(k), IsAlnum)

\* main.py 647: the normalized column names, in schema order
sql_cols_normalized(schema) == [i \in DOMAIN schema |-> normalize_key(schema[i])]

\* main.py 645, 673-674: the dict keeps the last column of a normalized name
ExactMatch(schema, norms, norm_key) ==
    LET hits == {i \in DOMAIN schema : norms[i] = norm_key}
    IN  IF hits = {} THEN NoMatch ELSE schema[SetMax(hits)]

\* the substring rule without its length guard
FuzzyCandidateUnguarded(sql_norm, norm_key) == Contains(sql_norm, norm_key)

\* main.py 680
FuzzyCandidate(sql_norm, norm_key) ==
    Contains(sql_norm, norm_key) /\ Len(sql_norm) > 2

\* main.py 647, 677-682: the first column in schema order
FuzzyMatch(schema, norms, norm_key) ==
    LET hits == {i \in DOMAIN schema : FuzzyCandidate(norms[i], norm_key)}
    IN  IF hits = {} THEN NoMatch ELSE schema[SetMin(hits)]

InKeys(schema, name) == \E i \in DOMAIN schema : schema[i] = name

\* main.py 685-699
SemanticMatch(schema, key) ==
    LET key_lower == LowerSeq(key)
    IN  IF /\ Contains(Lit_type, key_lower)
           /\ \/ InKeys(schema, Lit_casing)
              \/ \E i \in DOMAIN schema : Contains(Lit_CASING_TYPE, schema[i])
        THEN Lit_CASING_TYPE
        ELSE IF /\ Contains(Lit_depth, key_lower) \/ Contains(Lit_bottom, key_lower)
                /\ InKeys(schema, Lit_CASING_BOTTOM)
        THEN Lit_CASING_BOTTOM
        ELSE IF Contains(Lit_top, key_lower) /\ InKeys(schema, Lit_CASING_TOP)
        THEN Lit_CASING_TOP
        ELSE IF /\ Contains(Lit_diameter, key_lower) \/ Contains(Lit_od, key_lower)
                /\ InKeys(schema, Lit_OUTER_DIAMETER)
        THEN Lit_OUTER_DIAMETER
        ELSE IF /\ Contains(Lit_length, key_lower) \/ Contains(Lit_grade, key_lower)
                /\ InKeys(schema, Lit_STEEL_GRADE)
        THEN Lit_STEEL_GRADE
        ELSE IF /\ Contains(Lit_material, key_lower) \/ Contains(Lit_grade, key_lower)
                /\ InKeys(schema, Lit_MATERIAL_TYPE)
        THEN Lit_MATERIAL_TYPE
        ELSE NoMatch

\* the rules in the other order: substring before exact
MatchFieldFuzzyFirst(schema, norms, key) ==
    LET norm_key == normalize_key(key)
        fuzzy    == FuzzyMatch(schema, norms, norm_key)
        exact    == ExactMatch(schema, norms, norm_key)
        semantic == SemanticMatch(schema, key)
    IN  IF fuzzy # NoMatch THEN [col |-> fuzzy, rule |-> "fuzzy"]
        ELSE IF exact # NoMatch THEN [col |-> exact, rule |-> "exact"]
        ELSE IF semantic # NoMatch THEN [col |-> semantic, rule |-> "semantic"]
        ELSE [col |-> NoMatch, rule |-> "none"]

\* main.py 668-699: real_col_name of one raw field, and the rule that set it
MatchField(schema, norms, key) ==
    LET norm_key == normalize_key(key)
        exact    == ExactMatch(schema, norms, norm_key)
        fuzzy    == FuzzyMatch(schema, norms, norm_key)
        semantic == SemanticMatch(schema, key)
    IN  IF exact # NoMatch THEN [col |-> exact, rule |-> "exact"]
        ELSE IF fuzzy # NoMatch THEN [col |-> fuzzy, rule |-> "fuzzy"]
        ELSE IF semantic # NoMatch THEN [col |-> semantic, rule |-> "semantic"]
        ELSE [col |-> NoMatch, rule |-> "none"]

\* a Python dict as a function; a later field of the same key replaces an
\* earlier one
DictSet(d, k, v) == [x \in DOMAIN d \cup {k} |-> IF x = k THEN v ELSE d[x]]
EmptyDict == [x \in {} |-> NoneValue]

RECURSIVE DictOfFields(_, _)
DictOfFields(row, n) ==
    IF n = 0 THEN EmptyDict
    ELSE DictSet(DictOfFields(row, n - 1), row[n].key, row[n].val)

HasKey(row, k) == \E i \in DOMAIN row : row[i].key = k

\* main.py 704: f"Unknown column: {key}"
UnknownColumnMessage(key) == <<"Unknown column: ">> \o key
\* main.py 713
NoDataMessage == <<"No data extracted">>

\* main.py 721: "; ".join(errors) if errors else ""
RECURSIVE JoinErrors(_)
JoinErrors(errors) ==
    IF errors = <<>> THEN <<>>
    ELSE IF Len(errors) = 1 THEN errors[1]
    ELSE errors[1] \o <<"; ">> \o JoinErrors(Tail(errors))

\* main.py 666-705, one pass of the loop over row.items(): the state is
\* clean_row, errors, row_status and the log of matches made
MapField(schema, norms, st, field) ==
    IF StartsWithUnderscore(field.key) THEN st
    ELSE LET m == MatchField(schema, norms, field.key)
         IN  IF m.col # NoMatch
             THEN [st EXCEPT !.clean_row = DictSet(@, m.col, field.val),
                             !.log = Append(@, [key |-> field.key,
                                                val |-> field.val,
                                                col |-> m.col,
                                                rule |-> m.rule])]
             ELSE [st EXCEPT !.errors = Append(@, UnknownColumnMessage(field.key)),
                             !.row_status = "INVALID",
                             !.log = Append(@, [key |-> field.key,
                                                val |-> field.val,
                                                col |-> NoMatch,
                                                rule |-> "none"])]

RECURSIVE MapFields(_, _, _, _)
MapFields(schema, norms, row, n) ==
    IF n = 0
    THEN [clean_row |-> EmptyDict, errors |-> <<>>, row_status |-> "VALID",
          log |-> <<>>]
    ELSE MapField(schema, norms, MapFields(schema, norms, row, n - 1), row[n])

\* main.py 650
DisplayColumns(schema) ==
    SelectSeq(schema, LAMBDA k : UpperSeq(k) \notin IGNORED_COLUMNS)

\* the row left as the matching loop built it
FillMissingSkipped(clean_row, display_columns) == clean_row

\* main.py 716-718: every display column not yet a key is added with None
FillMissing(clean_row, display_columns) ==
    [col \in DOMAIN clean_row \cup {display_columns[i] : i \in DOMAIN display_columns}
        |-> IF col \in DOMAIN clean_row THEN clean_row[col] ELSE NoneValue]

\* a flagged row that is always given the status WARNING
FlaggedStatusAlwaysWarning(row) == "WARNING"

\* main.py 661
FlaggedStatus(row) == IF HasKey(row, Key_warning) THEN "WARNING" ELSE "ERROR"

\* a row whose emptiness is never noticed
EmptyRowCheckSkipped(st) == st

\* main.py 710-713
EmptyRowCheck(st) ==
    IF DOMAIN st.clean_row = {} /\ st.errors = <<>>
    THEN [st EXCEPT !.row_status = "WARNING",
                    !.errors = Append(@, NoDataMessage)]
    ELSE st

\* main.py 652-722: one pass of the loop over data; the validated row and
\* the log of its matches
ValidateRow(schema, norms, display_columns, row) ==
    IF HasKey(row, Key_warning) \/ HasKey(row, Key_error)
    THEN [out |-> DictSet(DictOfFields(row, Len(row)), Key_status,
                          FlaggedStatus(row)),
          log |-> <<>>, flagged |-> TRUE]
    ELSE LET st == EmptyRowCheck(MapFields(schema, norms, row, Len(row)))
             filled == FillMissing(st.clean_row, display_columns)
         IN  [out |-> DictSet(DictSet(filled, Key_status, st.row_status),
                              Key_errors, JoinErrors(st.errors)),
              log |-> st.log, flagged |-> FALSE]

\* sql_cols_normalized and display_columns of each table: validate_data
\* computes them once per call, before its loop (main.py 645-650)
NormalizedColumns == [t \in DOMAIN Database |-> sql_cols_normalized(Database[t])]
DisplayColumnsOf == [t \in DOMAIN Database |-> DisplayColumns(Database[t])]

\* main.py 631-724
validate_data(data, table_name) ==
    LET reflected == get_table_schema(table_name)
    IN  IF ~reflected.found
        THEN [kind |-> "error", schema |-> <<>>, data |-> <<>>, logs |-> <<>>]
        ELSE LET schema == reflected.columns
                 norms == NormalizedColumns[table_name]
                 display_columns == DisplayColumnsOf[table_name]
                 rows == [i \in DOMAIN data |->
                            ValidateRow(schema, norms, display_columns, data[i])]
             IN  [kind |-> "ok",
                  schema |-> display_columns,
                  data |-> [i \in DOMAIN data |-> rows[i].out],
                  logs |-> [i \in DOMAIN data |-> rows[i].log]]

(***************************************************************************)
(* The validation specification: one call of validate_data                 *)
(***************************************************************************)
MaxFields == 2
FieldValues == <<"v1", "v2", "v3", "v4">>
TableNames == {"wcr_casing", "wcr_wellhead", "wcr_dirsrvy", "wcr_swc"}

\* records of up to MaxFields fields with distinct keys; the i-th field
\* carries the i-th value
RowsOfLength(n) ==
    {r \in [1..n -> RawKeys] : \A i, j \in 1..n : i # j => r[i] # r[j]}
Rows ==
    UNION {{[i \in 1..n |-> [key |-> r[i], val |-> FieldValues[i]]] :
              r \in RowsOfLength(n)} : n \in 0..MaxFields}

\* what may follow the row under study in the same call
PlaceholderRow ==
    <<[key |-> Key_raw_text, val |-> "v1"], [key |-> Key_warning, val |-> "v2"]>>
DataTails == {<<>>, << <<>> >>, <<PlaceholderRow>>}

\* vd_out before the call
Pending == [kind |-> "pending"]

InitValidate ==
    /\ IdleBbox /\ IdleTable /\ IdleExtract /\ IdleGemini /\ IdleManual /\ IdleConcurrent
    /\ vd_table \in TableNames
    /\ vd_data \in {<<r>> \o t : r \in Rows, t \in DataTails}
    /\ vd_out = Pending

CallValidateData ==
    /\ vd_out = Pending
    /\ vd_out' = validate_data(vd_data, vd_table)
    /\ UNCHANGED <<vd_table, vd_data, bbVars, tkVars, exVars, gmVars, mpVars, ccVars>>

NextValidate == CallValidateData

SpecValidate == InitValidate /\ [][NextValidate]_vars

(***************************************************************************)
(* Claims about validate_data                                              *)
(***************************************************************************)
Validated == vd_out.kind = "ok"
Flagged(row) == HasKey(row, Key_warning) \/ HasKey(row, Key_error)

\* the raw fields of a record: its keys that are not internal flags
RawFieldIndexes(row) == {i \in DOMAIN row : ~StartsWithUnderscore(row[i].key)}

\* upper-cased with every non-alphanumeric character removed
RECURSIVE AlnumUpperOf(_)
AlnumUpperOf(s) ==
    IF s = <<>> THEN <<>>
    ELSE (IF IsAlnum(Head(s)) THEN <<Upper(Head(s))>> ELSE <<>>)
            \o AlnumUpperOf(Tail(s))

ColumnsOf(table) == {Database[table][i] : i \in DOMAIN Database[table]}

\* the same of every raw key and column name, worked out once
AlnumUpperOfNames ==
    [s \in RawKeys \cup UNION {ColumnsOf(t) : t \in DOMAIN Database} |->
        AlnumUpperOf(s)]
AlnumUpper(s) ==
    IF s \in DOMAIN AlnumUpperOfNames THEN AlnumUpperOfNames[s]
    ELSE AlnumUpperOf(s)

\* msg is one of the messages joined into the error string
Recorded(msg, joined) ==
    \E i \in 0..(Len(joined) - Len(msg)) :
        /\ SubSeq(joined, i + 1, i + Len(msg)) = msg
        /\ i = 0 \/ joined[i] = "; "
        /\ i + Len(msg) = Len(joined) \/ joined[i + Len(msg) + 1] = "; "

\* the value the loop leaves under a column: that of the last field mapped
\* to it
LastValueFor(log, col) ==
    log[SetMax({j \in DOMAIN log : log[j].col = col})].val

\* the log has one entry per raw field, in the order of the record
LogCoversRawFields(row, log) ==
    /\ Len(log) = Cardinality(RawFieldIndexes(row))
    /\ \A j \in DOMAIN log :
         \E i \in RawFieldIndexes(row) :
            /\ Cardinality({h \in RawFieldIndexes(row) : h <= i}) = j
            /\ log[j].key = row[i].key /\ log[j].val = row[i].val

C6_SubstringGuard ==
    Validated =>
        \A i \in DOMAIN vd_data : \A j \in DOMAIN vd_out.logs[i] :
            vd_out.logs[i][j].rule = "fuzzy" =>
                /\ Len(AlnumUpper(vd_out.logs[i][j].col)) >= 3
                /\ Contains(AlnumUpper(vd_out.logs[i][j].col),
                            AlnumUpper(vd_out.logs[i][j].key))

\* {"uwi_no": v1, "md_ft": v2} against wcr_dirsrvy: uwi_no is mapped to uwi
\* by the substring rule, md_ft contains the two-letter column md and is
\* left unmatched
C6_Witness ==
    /\ Validated /\ vd_table = "wcr_dirsrvy"
    /\ vd_data[1] = <<[key |-> Raw_uwi_no, val |-> "v1"],
                      [key |-> Raw_md_ft, val |-> "v2"]>>
    /\ vd_out.logs[1][1].rule = "fuzzy"
    /\ vd_out.logs[1][1].col = <<"u", "w", "i">>
    /\ vd_out.logs[1][2].rule = "none"
    /\ vd_out.data[1][<<"m", "d">>] = NoneValue

AllRawFieldsMatch(row) ==
    \A i \in RawFieldIndexes(row) :
        MatchField(Database[vd_table], NormalizedColumns[vd_table],
                   row[i].key).col # NoMatch

MatchedColumns(log) == {log[j].col : j \in DOMAIN log}
DisplaySet(table) ==
    {c \in ColumnsOf(table) : UpperSeq(c) \notin IGNORED_COLUMNS}

\* what C9 says of one validated row
ValidWithNulls(out, log) ==
    /\ out[Key_status] = "VALID"
    /\ out[Key_errors] = <<>>
    /\ DOMAIN out = MatchedColumns(log) \cup DisplaySet(vd_table)
                        \cup {Key_status, Key_errors}
    /\ \A c \in MatchedColumns(log) : out[c] = LastValueFor(log, c)
    /\ \A c \in DisplaySet(vd_table) \ MatchedColumns(log) : out[c] = NoneValue

\* C9 as stated: a record with no marker, all of whose fields match, is
\* VALID with an empty error string, its matched columns hold the extracted
\* values and the other non-ignored columns are null.
C9_AsStated ==
    Validated =>
        \A i \in DOMAIN vd_data :
            (~Flagged(vd_data[i]) /\ AllRawFieldsMatch(vd_data[i])) =>
                ValidWithNulls(vd_out.data[i], vd_out.logs[i])

\* C9, amended: the same of a record that has at least one raw field.
C9_ValidWithNulls ==
    Validated =>
        \A i \in DOMAIN vd_data :
            (/\ ~Flagged(vd_data[i])
             /\ RawFieldIndexes(vd_data[i]) # {}
             /\ AllRawFieldsMatch(vd_data[i])) =>
                ValidWithNulls(vd_out.data[i], vd_out.logs[i])

\* {"Field:": v1} against wcr_wellhead: FIELD holds v1, WELL_NAME is null,
\* the row is VALID
C9_Witness ==
    /\ Validated /\ vd_table = "wcr_wellhead"
    /\ vd_data[1] = <<[key |-> Raw_Field, val |-> "v1"]>>
    /\ vd_out.data[1][<<"F", "I", "E", "L", "D">>] = "v1"
    /\ vd_out.data[1][<<"W", "E", "L", "L", "_", "N", "A", "M", "E">>] = NoneValue
    /\ vd_out.data[1][Key_status] = "VALID"

\* C10 as stated: WARNING if the record is empty or carries a warning or an
\* error marker; INVALID if any raw field fails to match; VALID otherwise.
C10_AsStated ==
    Validated =>
        \A i \in DOMAIN vd_data :
            vd_out.data[i][Key_status] =
                IF vd_data[i] = <<>> \/ Flagged(vd_data[i]) THEN "WARNING"
                ELSE IF ~AllRawFieldsMatch(vd_data[i]) THEN "INVALID"
                ELSE "VALID"

\* C10, amended: WARNING if the record carries a warning marker; ERROR if it
\* carries an error marker and no warning marker; otherwise WARNING if it has
\* no raw field, INVALID if any raw field fails to match, VALID otherwise.
C10_RowStatus ==
    Validated =>
        \A i \in DOMAIN vd_data :
            vd_out.data[i][Key_status] =
                IF HasKey(vd_data[i], Key_warning) THEN "WARNING"
                ELSE IF HasKey(vd_data[i], Key_error) THEN "ERROR"
                ELSE IF RawFieldIndexes(vd_data[i]) = {} THEN "WARNING"
                ELSE IF ~AllRawFieldsMatch(vd_data[i]) THEN "INVALID"
                ELSE "VALID"

\* {"_error": v1, "UWI": v2} is given the status ERROR
C10_Witness ==
    /\ Validated
    /\ vd_data[1] = <<[key |-> Key_error, val |-> "v1"],
                      [key |-> Raw_UWI, val |-> "v2"]>>
    /\ vd_out.data[1][Key_status] = "ERROR"

RowKeys(row) == {row[i].key : i \in DOMAIN row}
UnmatchedIndexes(row) ==
    {i \in RawFieldIndexes(row) :
        MatchField(Database[vd_table], NormalizedColumns[vd_table],
                   row[i].key).col = NoMatch}

\* a validated row with every non-ignored column, a status and an error
\* string
HasFullShape(out) ==
    DisplaySet(vd_table) \cup {Key_status, Key_errors} \subseteq DOMAIN out

StrippedColumns ==
    [t \in DOMAIN Database |->
        [p \in DOMAIN Database[t] |-> AlnumUpper(Database[t][p])]]
StrippedKeys == [k \in RawKeys |-> AlnumUpper(k)]

\* the columns whose stripped name equals that of the key
ExactColumns(table, key) ==
    {Database[table][p] :
        p \in {q \in DOMAIN Database[table] :
                  StrippedColumns[table][q] = StrippedKeys[key]}}

\* the places in the schema of the columns whose stripped name is longer
\* than 2 characters and occurs inside the stripped key
SubstringPlaces(table, key) ==
    {p \in DOMAIN Database[table] :
        /\ Len(StrippedColumns[table][p]) > 2
        /\ Contains(StrippedColumns[table][p], StrippedKeys[key])}

\* what the rules in the order exact, substring, synonym decide for a key
\* of each table
DecidedInOrder ==
    [t \in DOMAIN Database |->
        [key \in RawKeys |->
            IF ExactColumns(t, key) # {}
            THEN [rule |-> "exact", cols |-> ExactColumns(t, key)]
            ELSE IF SubstringPlaces(t, key) # {}
            THEN [rule |-> "fuzzy",
                  cols |-> {Database[t][SetMin(SubstringPlaces(t, key))]}]
            ELSE IF SemanticMatch(Database[t], key) # NoMatch
            THEN [rule |-> "semantic", cols |-> {SemanticMatch(Database[t], key)}]
            ELSE [rule |-> "none", cols |-> {NoMatch}]]]

\* C12: each raw field is decided by the first rule that succeeds in the
\* order exact normalized match, substring match, synonym rules: a field
\* with an exact match gets that column whatever the substring and synonym
\* rules would pick, a synonym rule decides only when neither of the other
\* two matched, and the value is stored under the column so decided.
C12_FirstRuleWins ==
    Validated =>
        \A i \in DOMAIN vd_data :
            ~Flagged(vd_data[i]) =>
                /\ LogCoversRawFields(vd_data[i], vd_out.logs[i])
                /\ \A j \in DOMAIN vd_out.logs[i] :
                     LET entry == vd_out.logs[i][j]
                         decided == DecidedInOrder[vd_table][entry.key]
                     IN  /\ entry.rule = decided.rule
                         /\ entry.col \in decided.cols
                         /\ entry.col # NoMatch =>
                              vd_out.data[i][entry.col] =
                                  LastValueFor(vd_out.logs[i], entry.col)

\* {"Material Type": v1, "uwi_type": v2} against wcr_casing: the first
\* field goes to MATERIAL_TYPE by the exact rule although the synonym rule
\* for "type" names CASING_TYPE; the second goes to UWI by the substring
\* rule although the same synonym rule applies
C12_Witness ==
    /\ Validated /\ vd_table = "wcr_casing"
    /\ vd_data[1] = <<[key |-> Raw_Material_Type, val |-> "v1"],
                      [key |-> Raw_uwi_type, val |-> "v2"]>>
    /\ SemanticMatch(Database[vd_table], Raw_Material_Type) = Lit_CASING_TYPE
    /\ SemanticMatch(Database[vd_table], Raw_uwi_type) = Lit_CASING_TYPE
    /\ vd_out.logs[1][1].rule = "exact"
    /\ vd_out.data[1][Lit_MATERIAL_TYPE] = "v1"
    /\ vd_out.logs[1][2].rule = "fuzzy"
    /\ vd_out.data[1][<<"U", "W", "I">>] = "v2"
    /\ vd_out.data[1][Lit_CASING_TYPE] = NoneValue

\* {"rig released date": v1} against wcr_wellhead goes to RIG_RELEASED_DATE
\* by the exact rule although RIG is a substring match
C12_ExactOverSubstringReached ==
    /\ Validated /\ vd_table = "wcr_wellhead"
    /\ vd_data[1] = <<[key |-> Raw_rig_released_date, val |-> "v1"]>>
    /\ SubstringPlaces(vd_table, Raw_rig_released_date) # {}
    /\ vd_out.logs[1][1].rule = "exact"
    /\ vd_out.data[1][<<"R", "I", "G">>] = NoneValue
    /\ vd_out.data[1][<<"R", "I", "G", "_", "R", "E", "L", "E", "A", "S", "E", "D", "_", "D", "A", "T", "E">>] = "v1"

(***************************************************************************)
(* The fixed-column clustering of extract_from_region (main.py 469-550).   *)
(* A word is a record [text, x0, x1, top, bottom] with integer              *)
(* coordinates; a horizontal centre (x0 + x1) / 2 is kept doubled, as       *)
(* x0 + x1, so that it stays an integer.                                    *)
(***************************************************************************)
\* main.py 480
NUM_COLS == 9
\* main.py 503: the slack of a column bound
ColumnTolerance == 2
\* main.py 511: tol=4
RowTolerance == 4
\* main.py 496, 502: the x0 of the bound of an empty seed group
SentinelX == -1
\* main.py 505: assign_column returns None
NoColumn == -1

\* Python's sorted(seq, key=...): stable, so that elements of equal key keep
\* their order; keys[i] is the key of seq[i]
StableSort(seq, keys) ==
    LET n == Len(seq)
        rank(i) == 1 + Cardinality({j \in 1..n :
                        keys[j] < keys[i] \/ (keys[j] = keys[i] /\ j < i)})
    IN  [p \in 1..n |-> seq[CHOOSE i \in 1..n : rank(i) = p]]

\* the words in the order given, unsorted
SortByCenterSkipped(words) == words

\* main.py 477
SortByCenter(words) ==
    StableSort(words, [i \in DOMAIN words |-> words[i].x0 + words[i].x1])

\* groups cut at every ceil(n / NUM_COLS) words
SeedColumnOfFixedSize(words_sorted, k) ==
    LET n == Len(words_sorted)
        size == (n + NUM_COLS - 1) \div NUM_COLS
        idx == {i \in 0..(n - 1) : i \div size = k}
    IN  [j \in 1..Cardinality(idx) |-> words_sorted[SetMin(idx) + j]]

\* main.py 484-487: columns[i * NUM_COLS // len(words_sorted)].append(w)
SeedColumn(words_sorted, k) ==
    LET n == Len(words_sorted)
        idx == {i \in 0..(n - 1) : (i * NUM_COLS) \div n = k}
    IN  [j \in 1..Cardinality(idx) |-> words_sorted[SetMin(idx) + j]]

\* main.py 490-496
ColBound(col) ==
    IF col # <<>>
    THEN LET xs == {col[i].x0 : i \in DOMAIN col} \cup {col[i].x1 : i \in DOMAIN col}
         IN  <<SetMin(xs), SetMax(xs)>>
    ELSE <<SentinelX, SentinelX>>

ColBounds(words_sorted) ==
    [c \in 1..NUM_COLS |-> ColBound(SeedColumn(words_sorted, c - 1))]

\* main.py 499-505: the first bound that holds the centre, as a 0-based
\* column number
assign_column(word, col_bounds) ==
    LET hits == {i \in DOMAIN col_bounds :
                    /\ col_bounds[i][1] # SentinelX
                    /\ 2 * (col_bounds[i][1] - ColumnTolerance) <= word.x0 + word.x1
                    /\ word.x0 + word.x1 <= 2 * (col_bounds[i][2] + ColumnTolerance)}
    IN  IF hits = {} THEN NoColumn ELSE SetMin(hits) - 1

\* main.py 511-515
same_row(w1, w2) ==
    ~(w1.bottom < w2.top - RowTolerance \/ w2.bottom < w1.top - RowTolerance)

\* main.py 520-527: the word joins the first row whose first word it overlaps
PlaceWord(rows, w) ==
    LET hits == {r \in DOMAIN rows : same_row(w, rows[r][1])}
    IN  IF hits = {} THEN Append(rows, <<w>>)
        ELSE [rows EXCEPT ![SetMin(hits)] = Append(@, w)]

RECURSIVE PlaceWords(_, _)
PlaceWords(by_top, n) ==
    IF n = 0 THEN <<>> ELSE PlaceWord(PlaceWords(by_top, n - 1), by_top[n])

\* main.py 517-531: rows built top-down, then sorted by the top of their
\* first word
BuildRows(words) ==
    LET by_top == StableSort(words, [i \in DOMAIN words |-> words[i].top])
        rows   == PlaceWords(by_top, Len(by_top))
    IN  StableSort(rows, [r \in DOMAIN rows |-> rows[r][1].top])

\* main.py 534-539: the cells of one row; a cell is the list of the texts
\* that " ".join puts together (the texts themselves hold no blank)
RowCells(row, col_of) ==
    [c \in 1..NUM_COLS |->
        LET cell_words == SelectSeq(row, LAMBDA w : col_of[w.text] = c - 1)
            sorted == StableSort(cell_words,
                                 [i \in DOMAIN cell_words |-> cell_words[i].x0])
        IN  [i \in DOMAIN sorted |-> sorted[i].text]]

\* main.py 469-550 for a label of the CASING family: what the block leaves
\* behind.  The name table_data (main.py 540) is bound nowhere in
\* extract_from_region nor in the module, so the first pass of the loop over
\* rows raises NameError after it has built row_cells; the handler at
\* main.py 547 catches it and tables stays empty.
Reconstruct(words) ==
    IF words = <<>> \/ Len(words) < NUM_COLS
    THEN [clustered |-> FALSE, seeds |-> <<>>, bounds |-> <<>>, col |-> <<>>,
          rows |-> <<>>, row_cells |-> <<>>, raised |-> FALSE, tables |-> <<>>]
    ELSE LET words_sorted == SortByCenter(words)
             columns == [c \in 1..NUM_COLS |-> SeedColumn(words_sorted, c - 1)]
             col_bounds == ColBounds(words_sorted)
             col_of == [t \in {words[i].text : i \in DOMAIN words} |->
                          assign_column(
                              words[CHOOSE i \in DOMAIN words : words[i].text = t],
                              col_bounds)]
             rows == BuildRows(words)
         IN  [clustered |-> TRUE,
              seeds |-> [c \in 1..NUM_COLS |->
                           [i \in DOMAIN columns[c] |-> columns[c][i].text]],
              bounds |-> col_bounds,
              col |-> col_of,
              rows |-> [r \in DOMAIN rows |->
                          [i \in DOMAIN rows[r] |-> rows[r][i].text]],
              row_cells |-> RowCells(rows[1], col_of),
              raised |-> TRUE,
              tables |-> <<>>]

(***************************************************************************)
(* The clustering specification: the same words handed over twice, in two   *)
(* orders                                                                   *)
(***************************************************************************)
Word(t, a, b, c, d) == [text |-> t, x0 |-> a, x1 |-> b, top |-> c, bottom |-> d]

\* nine words of distinct centres and tops in three visual rows, and three
\* more: d1 shares its centre with c1, d2 its top with c1, d4 lies next to c1
WordUniverse == <<
    Word("c1", 0, 10, 0, 8),      Word("c2", 20, 30, 20, 28),
    Word("c3", 40, 50, 40, 48),   Word("c4", 60, 70, 1, 9),
    Word("c5", 80, 90, 21, 29),   Word("c6", 100, 110, 41, 49),
    Word("c7", 120, 130, 2, 10),  Word("c8", 140, 150, 22, 30),
    Word("c9", 160, 170, 42, 50),
    Word("d1", 2, 8, 60, 68),     Word("d2", 178, 192, 0, 30),
    Word("d4", 8, 15, 75, 83) >>

MaxWords == 10

\* regions of NUM_COLS to MaxWords words, an empty region and one of
\* NUM_COLS - 1 words
WordChoices ==
    {S \in SUBSET DOMAIN WordUniverse : Cardinality(S) \in NUM_COLS..MaxWords}
        \cup {{}, 1..(NUM_COLS - 1)}

\* the chosen words in the order of the universe
InOrder(S) ==
    LET pos(i) == Cardinality({j \in S : j <= i})
    IN  [p \in 1..Cardinality(S) |-> WordUniverse[CHOOSE i \in S : pos(i) = p]]

Swapped(seq, i, j) ==
    [p \in DOMAIN seq |-> IF p = i THEN seq[j] ELSE IF p = j THEN seq[i] ELSE seq[p]]
Reversed(seq) == [p \in DOMAIN seq |-> seq[Len(seq) + 1 - p]]

\* the orders the second run may be given
Reorderings(seq) ==
    {Reversed(seq)} \cup {Swapped(seq, i, j) : i, j \in DOMAIN seq}
        \cup {seq}

NotRun == [clustered |-> FALSE, pending |-> TRUE]

InitTable ==
    /\ IdleBbox /\ IdleValidate /\ IdleExtract /\ IdleGemini /\ IdleManual /\ IdleConcurrent
    /\ \E S \in WordChoices :
         /\ tk_words = InOrder(S)
         /\ tk_words_again \in Reorderings(InOrder(S))
    /\ tk_run = NotRun
    /\ tk_run_again = NotRun

RunReconstruct ==
    /\ tk_run = NotRun
    /\ tk_run' = Reconstruct(tk_words)
    /\ UNCHANGED <<tk_words, tk_words_again, tk_run_again, bbVars, vdVars,
                   exVars, gmVars, mpVars, ccVars>>

RunReconstructAgain ==
    /\ tk_run # NotRun
    /\ tk_run_again = NotRun
    /\ tk_run_again' = Reconstruct(tk_words_again)
    /\ UNCHANGED <<tk_words, tk_words_again, tk_run, bbVars, vdVars, exVars, gmVars, mpVars, ccVars>>

NextTable == RunReconstruct \/ RunReconstructAgain

SpecTable == InitTable /\ [][NextTable]_vars

(***************************************************************************)
(* Claims about the clustering                                             *)
(***************************************************************************)
BothRun == tk_run # NotRun /\ tk_run_again # NotRun

SameAssignments ==
    /\ tk_run.col = tk_run_again.col
    /\ tk_run.rows = tk_run_again.rows
    /\ tk_run.row_cells = tk_run_again.row_cells
    /\ tk_run.tables = tk_run_again.tables
    /\ tk_run.raised = tk_run_again.raised

NoSharedCenterOrTop(words) ==
    \A i, j \in DOMAIN words :
        i # j => /\ words[i].x0 + words[i].x1 # words[j].x0 + words[j].x1
                 /\ words[i].top # words[j].top

\* C4 as stated: two runs given the same set of words, in whatever order
\* and with equal centres or tops allowed, give every word the same column
\* and the same row and build the same rows of cells.
C4_AsStated == BothRun => SameAssignments

\* C4, amended: two runs given the same set of words, no two of which share
\* a horizontal centre or a top, in whatever order, give every word the same
\* column and the same row and build the same cells.
C4_DeterministicWithoutTies ==
    (BothRun /\ NoSharedCenterOrTop(tk_words)) => SameAssignments

\* ten words without ties handed over in two different orders and clustered
\* alike into more than one row
C4_Witness ==
    /\ BothRun /\ NoSharedCenterOrTop(tk_words)
    /\ Len(tk_words) = 10
    /\ tk_words_again # tk_words
    /\ tk_run.clustered /\ tk_run_again.clustered
    /\ Len(tk_run.rows) > 1
    /\ tk_run.col = tk_run_again.col /\ tk_run.rows = tk_run_again.rows

(***************************************************************************)
(* The /extract endpoint (main.py 735-806) and the three strategies it     *)
(* calls, as far as their choice of bounding box, their size checks and    *)
(* their early returns go.  What a strategy reads from a cropped region    *)
(* depends on the document, the OCR engine and the LLM; it is a choice     *)
(* among lists of records that the code of the strategy can return.        *)
(***************************************************************************)
\* main.py 81-94: LABEL_TO_TABLE, four of its labels
LABEL_TO_TABLE ==
    [l \in {"CASING", "WCR_CASING", "DIRSRVY", "SWC"} |->
        CASE l = "CASING" -> "wcr_casing"
          [] l = "WCR_CASING" -> "wcr_casing"
          [] l = "DIRSRVY" -> "wcr_dirsrvy"
          [] l = "SWC" -> "wcr_swc"]

\* main.py 747: LABEL_TO_TABLE.get(label), None for a label it lacks
NoTable == "None"
TableFor(label) ==
    IF label \in DOMAIN LABEL_TO_TABLE THEN LABEL_TO_TABLE[label] ELSE NoTable

\* a label check that lets every label through
NotMappedNever(table_name) == FALSE

\* main.py 748: "if not table_name"
NotMapped(table_name) == table_name = NoTable

\* the pages of the uploaded PDF (page.width, page.height) and the size of
\* the uploaded image
DocPages == <<[width |-> 1000, height |-> 500], [width |-> 50, height |-> 50]>>
ImageSize == [width |-> 1000, height |-> 500]

\* main.py 442: pdf.pages[i] accepts -len <= i < len and counts a negative
\* index from the end; any other index raises IndexError
IndexValid(seq, i) == -Len(seq) <= i /\ i < Len(seq)
ListItem(seq, i) == IF i >= 0 THEN seq[i + 1] ELSE seq[Len(seq) + i + 1]

\* main.py 752: the file names of the two uploads and the image suffixes
Name_report_pdf == <<"r", "e", "p", "o", "r", "t", ".", "p", "d", "f">>
Name_scan_PNG == <<"s", "c", "a", "n", ".", "P", "N", "G">>
ImageSuffixes == {
    <<".", "p", "n", "g">>, <<".", "j", "p", "g">>, <<".", "j", "p", "e", "g">>,
    <<".", "t", "i", "f", "f">>, <<".", "t", "i", "f">>, <<".", "w", "e", "b", "p">>,
    <<".", "b", "m", "p">>, <<".", "g", "i", "f">>
}
EndsWith(s, suffix) ==
    Len(suffix) <= Len(s) /\ SubSeq(s, Len(s) - Len(suffix) + 1, Len(s)) = suffix
is_image(filename) == \E suffix \in ImageSuffixes : EndsWith(LowerSeq(filename), suffix)

\* main.py 448: "sel.view_width and sel.view_width > 0"
UsesViewDimensions(sel) == sel.view_width # R(0) /\ RLt(R(0), sel.view_width)

\* main.py 452-453: the legacy fractions scaled by the page
LegacyBbox(sel, width, height) ==
    <<RMul(sel.x_pct, width), RMul(sel.y_pct, height),
      RMul(RAdd(sel.x_pct, sel.w_pct), width),
      RMul(RAdd(sel.y_pct, sel.h_pct), height)>>

\* main.py 448-453, 290-296, 376-381
SelectionBbox(sel, width, height) ==
    IF UsesViewDimensions(sel)
    THEN get_canonical_bbox(R(width), R(height), sel.view_width, sel.view_height,
                            sel.x, sel.y, sel.width, sel.height)
    ELSE LegacyBbox(sel, R(width), R(height))

\* a native size check that lets every bbox through
TooSmallNever(bbox) == FALSE

\* main.py 458: x1 - x0 <= 1 or bottom - top <= 1
TooSmall(bbox) ==
    \/ RLe(RSub(bbox[3], bbox[1]), R(1))
    \/ RLe(RSub(bbox[4], bbox[2]), R(1))

\* main.py 301, 388: bbox[2] - bbox[0] <= 0 or bbox[3] - bbox[1] <= 0
EmptyBbox(bbox) ==
    \/ RLe(RSub(bbox[3], bbox[1]), R(0))
    \/ RLe(RSub(bbox[4], bbox[2]), R(0))

\* texts: n letters, and the same between blanks
Letters(n) == [i \in 1..n |-> "x"]
Padded(text) == <<" ", " ">> \o text \o <<"\n">>
Text30 == Letters(30)
Text50 == Padded(Letters(50))
Text51 == Letters(51)

\* str.strip()
IsSpace(c) == c \in {" ", "\n", "\t"}
Strip(s) ==
    LET inked == {i \in DOMAIN s : ~IsSpace(s[i])}
    IN  IF inked = {} THEN <<>> ELSE SubSeq(s, SetMin(inked), SetMax(inked))

\* records a strategy can return: rows of a table or of parsed text
NativeOneField == <<[key |-> Raw_Depth, val |-> "n1"]>>
NativeTwoFields == <<[key |-> Raw_Depth, val |-> "n1"], [key |-> Raw_grade, val |-> "n2"]>>
NativeRawTextOnly == <<[key |-> Key_raw_text, val |-> Text30]>>
OcrRecord == <<[key |-> Raw_md, val |-> "o1"], [key |-> Raw_od, val |-> "o2"]>>
OcrSecondRecord == <<[key |-> Raw_md, val |-> "o3"]>>
\* main.py 621: {"raw_text": text[:2000], "_warning": ...}
Placeholder(text) ==
    <<[key |-> Key_raw_text, val |-> text],
      [key |-> Key_warning, val |-> "No table found - extracted text"]>>
\* a record of the LLM's making that carries "_error"
LlmErrorRecord(text) ==
    <<[key |-> Key_error, val |-> "unreadable"], [key |-> Key_raw_text, val |-> text]>>
\* main.py 428: {"extracted_text": ..., "_source": "ocr_raw"}
ImageRawRecord ==
    <<[key |-> <<"e", "x", "t", "r", "a", "c", "t", "e", "d", "_", "t", "e", "x", "t">>,
       val |-> Text30],
      [key |-> Raw_source, val |-> "ocr_raw"]>>

\* main.py 567-621: what extract_from_region can return once it has cropped
NativeOutputs(use_ai) ==
    {<<>>, <<NativeOneField>>, <<NativeTwoFields>>,
     <<NativeOneField, NativeTwoFields>>, <<NativeRawTextOnly>>}
    \cup (IF use_ai
          THEN {<<LlmErrorRecord(Text30)>>, <<LlmErrorRecord(Text51)>>}
          ELSE {<<Placeholder(Text30)>>, <<Placeholder(Text50)>>,
                <<Placeholder(Text51)>>})

\* main.py 330-357: what extract_with_ocr can return once it has cropped
OcrOutputs == {<<>>, <<OcrRecord>>, <<OcrRecord, OcrSecondRecord>>}

\* main.py 410-436: what extract_from_image can return once it has cropped
ImageOutputs(use_ai) ==
    {<<>>, <<OcrRecord>>} \cup (IF use_ai THEN {} ELSE {<<ImageRawRecord>>})

Returned(cropped, data) == [raised |-> FALSE, cropped |-> cropped, data |-> data]
Raised == [raised |-> TRUE, cropped |-> FALSE, data |-> <<>>]

\* the bbox lies on the page
WithinPage(bbox, width, height) ==
    /\ RLe(R(0), bbox[1]) /\ RLe(bbox[3], R(width))
    /\ RLe(R(0), bbox[2]) /\ RLe(bbox[4], R(height))

\* main.py 438-623: the outcomes of extract_from_region.  The clustering of
\* main.py 469-550 leaves tables empty (Reconstruct), so the label has no
\* part in the outcome.  page.crop (463) is pdfplumber's: for a bbox that
\* leaves the page it raises ValueError or crops, as the installed version
\* has it, and nothing here catches what it raises.
extract_from_region(sel) ==
    IF ~IndexValid(DocPages, sel.page_number - 1)
    THEN {Raised}
    ELSE LET page == ListItem(DocPages, sel.page_number - 1)
             bbox == SelectionBbox(sel, page.width, page.height)
         IN  IF TooSmall(bbox)
             THEN {Returned(FALSE, <<>>)}
             ELSE {Returned(TRUE, d) : d \in NativeOutputs(sel.use_ai)}
                    \cup (IF WithinPage(bbox, page.width, page.height)
                          THEN {}
                          ELSE {Raised})

\* main.py 267-357: the outcomes of extract_with_ocr; what page.crop (306)
\* raises is caught at 318 and gives []
extract_with_ocr(sel, tesseract) ==
    IF ~tesseract
    THEN {Returned(FALSE, <<>>)}
    ELSE IF sel.page_number < 1 \/ sel.page_number > Len(DocPages)
    THEN {Returned(FALSE, <<>>)}
    ELSE LET page == DocPages[sel.page_number]
             bbox == SelectionBbox(sel, page.width, page.height)
         IN  IF EmptyBbox(bbox)
             THEN {Returned(FALSE, <<>>)}
             ELSE {Returned(TRUE, d) : d \in OcrOutputs}
                    \cup (IF WithinPage(bbox, page.width, page.height)
                          THEN {}
                          ELSE {Returned(FALSE, <<>>)})

\* main.py 359-436: the outcomes of extract_from_image
extract_from_image(sel, tesseract) ==
    IF ~tesseract
    THEN {Returned(FALSE, <<>>)}
    ELSE LET bbox == SelectionBbox(sel, ImageSize.width, ImageSize.height)
         IN  IF EmptyBbox(bbox)
             THEN {Returned(FALSE, <<>>)}
             ELSE {Returned(TRUE, d) : d \in ImageOutputs(sel.use_ai)}

\* dict.get(key, default)
DictGet(row, k, default) ==
    IF HasKey(row, k)
    THEN row[SetMax({i \in DOMAIN row : row[i].key = k})].val
    ELSE default

\* len(row.keys())
KeyCount(row) == Cardinality({row[i].key : i \in DOMAIN row})

\* main.py 770: the literal 50, and main.py 774: the literal 2
QualityTextLength == 50
MinKeyCount == 2

\* the length test on the text as it is, blanks and all
SubstantialTextUnstripped(raw_text) == Len(raw_text) > QualityTextLength

\* main.py 770: len(raw_text.strip()) > 50
SubstantialText(raw_text) == Len(Strip(raw_text)) > QualityTextLength

\* main.py 762-776: native_quality_low
NativeQualityLow(raw_data) ==
    IF raw_data = <<>>
    THEN TRUE
    ELSE IF HasKey(raw_data[1], Key_warning) \/ HasKey(raw_data[1], Key_error)
    THEN ~SubstantialText(DictGet(raw_data[1], Key_raw_text, <<>>))
    ELSE KeyCount(raw_data[1]) < MinKeyCount

\* the OCR result taken whether or not it holds a record
ReplaceAlways(raw_data, ocr_data) == ocr_data

\* main.py 787-788: the OCR result replaces raw_data only if it holds a record
KeepOrReplace(raw_data, ocr_data) ==
    IF ocr_data # <<>> THEN ocr_data ELSE raw_data

\* a result of validate_data never taken for an error
HasErrorNever(result) == FALSE

\* main.py 799: "error" in result
HasError(result) == result.kind = "error"

\* the responses of the endpoint
HttpError(status, detail) ==
    [kind |-> "http_error", status |-> status, message |-> detail,
     raw_data |-> <<>>, sql_data |-> <<>>, schema |-> <<>>]
\* an exception nobody catches: the framework answers 500
Unhandled == HttpError(500, "Internal Server Error")
\* main.py 791-794
NoDataFound(tesseract_available) ==
    [kind |-> "json", status |-> 200,
     message |-> IF tesseract_available
                 THEN "No data found in selection"
                 ELSE "No data found in selection (OCR unavailable: Tesseract not found on server)",
     raw_data |-> <<>>, sql_data |-> <<>>, schema |-> <<>>]
\* main.py 802-806
Extracted(raw_data, result) ==
    [kind |-> "json", status |-> 200, message |-> "",
     raw_data |-> raw_data, sql_data |-> result.data, schema |-> result.schema]

\* the selections of the requests
Q(n, d) == Norm(n, d)
PixelRects == {<<R(0), R(0), R(0), R(0)>>, <<R(3), R(1), R(4), R(1)>>}
FractionRects ==
    {<<R(0), R(0), R(0), R(0)>>,
     <<R(0), R(0), Q(1, 2), Q(1, 2)>>,
     <<Q(1, 4), Q(1, 4), Q(1, 2), Q(1, 1000)>>,
     <<Q(1, 2), Q(1, 2), R(1), Q(1, 2)>>}
ViewSizes == {<<R(0), R(0)>>, <<R(500), R(300)>>, <<R(500), R(0)>>}
PageNumbers == {0, 1, 3}
Labels == {"CASING", "SWC", "PORE_PRESSURE"}
FileNames == {Name_report_pdf, Name_scan_PNG}

Selections ==
    {[page_number |-> p,
      x_pct |-> f[1], y_pct |-> f[2], w_pct |-> f[3], h_pct |-> f[4],
      x |-> px[1], y |-> px[2], width |-> px[3], height |-> px[4],
      view_width |-> v[1], view_height |-> v[2],
      label |-> l, use_ai |-> ai] :
        p \in PageNumbers, f \in FractionRects, px \in PixelRects,
        v \in ViewSizes, l \in Labels, ai \in BOOLEAN}

NoResponse == [kind |-> "none"]

InitExtract ==
    /\ IdleBbox /\ IdleValidate /\ IdleTable /\ IdleGemini /\ IdleManual /\ IdleConcurrent
    /\ ex_request \in [filename : FileNames, selection : Selections]
    /\ ex_tesseract \in BOOLEAN
    /\ ex_pc = "start"
    /\ ex_native = <<>>
    /\ ex_raw_data = <<>>
    /\ ex_native_quality_low = FALSE
    /\ ex_ocr_data = <<>>
    /\ ex_cropped = {}
    /\ ex_response = NoResponse
    /\ ex_calls = <<>>

\* main.py 740-752: the label is looked up before anything is read
LookupLabel ==
    /\ ex_pc = "start"
    /\ IF NotMapped(TableFor(ex_request.selection.label))
       THEN /\ ex_pc' = "done"
            /\ ex_response' = HttpError(400, "Label not mapped to SQL table")
       ELSE /\ ex_pc' = "extract"
            /\ UNCHANGED ex_response
    /\ UNCHANGED <<ex_request, ex_tesseract, ex_native, ex_raw_data,
                   ex_native_quality_low, ex_ocr_data, ex_cropped, ex_calls,
                   bbVars, vdVars, tkVars,
                   gmVars, mpVars, ccVars>>

\* main.py 755-756: an image goes to extract_from_image and to no other
\* strategy
ExtractImage ==
    /\ ex_pc = "extract"
    /\ is_image(ex_request.filename)
    /\ \E r \in extract_from_image(ex_request.selection, ex_tesseract) :
         /\ ex_raw_data' = r.data
         /\ ex_cropped' = IF r.cropped THEN ex_cropped \cup {"image"} ELSE ex_cropped
    /\ ex_calls' = Append(ex_calls, "extract_from_image")
    /\ ex_pc' = "respond"
    /\ UNCHANGED <<ex_request, ex_tesseract, ex_native, ex_native_quality_low,
                   ex_ocr_data, ex_response, bbVars, vdVars, tkVars,
                   gmVars, mpVars, ccVars>>

\* main.py 757-776: the native strategy and the judgement of its result
ExtractNative ==
    /\ ex_pc = "extract"
    /\ ~is_image(ex_request.filename)
    /\ \E r \in extract_from_region(ex_request.selection) :
         IF r.raised
         THEN /\ ex_pc' = "done"
              /\ ex_response' = Unhandled
              /\ UNCHANGED <<ex_native, ex_raw_data, ex_native_quality_low,
                             ex_cropped>>
         ELSE /\ ex_native' = r.data
              /\ ex_raw_data' = r.data
              /\ ex_native_quality_low' = NativeQualityLow(r.data)
              /\ ex_cropped' = IF r.cropped THEN ex_cropped \cup {"native"}
                               ELSE ex_cropped
              /\ ex_pc' = IF r.data = <<>> THEN "ocr_empty"
                          ELSE IF NativeQualityLow(r.data) THEN "ocr_low"
                          ELSE "respond"
              /\ UNCHANGED ex_response
    /\ ex_calls' = Append(ex_calls, "extract_from_region")
    /\ UNCHANGED <<ex_request, ex_tesseract, ex_ocr_data, bbVars, vdVars, tkVars,
                   gmVars, mpVars, ccVars>>

\* main.py 779-781: nothing native, OCR takes its place
OcrWhenEmpty ==
    /\ ex_pc = "ocr_empty"
    /\ \E r \in extract_with_ocr(ex_request.selection, ex_tesseract) :
         /\ ex_raw_data' = r.data
         /\ ex_ocr_data' = Append(ex_ocr_data, r.data)
         /\ ex_cropped' = IF r.cropped THEN ex_cropped \cup {"ocr"} ELSE ex_cropped
    /\ ex_calls' = Append(ex_calls, "extract_with_ocr")
    /\ ex_pc' = IF ex_native_quality_low THEN "ocr_low" ELSE "respond"
    /\ UNCHANGED <<ex_request, ex_tesseract, ex_native, ex_native_quality_low,
                   ex_response, bbVars, vdVars, tkVars,
                   gmVars, mpVars, ccVars>>

\* main.py 783-788: a poor native result, OCR is tried
OcrWhenLow ==
    /\ ex_pc = "ocr_low"
    /\ \E r \in extract_with_ocr(ex_request.selection, ex_tesseract) :
         /\ ex_raw_data' = KeepOrReplace(ex_raw_data, r.data)
         /\ ex_ocr_data' = Append(ex_ocr_data, r.data)
         /\ ex_cropped' = IF r.cropped THEN ex_cropped \cup {"ocr"} ELSE ex_cropped
    /\ ex_calls' = Append(ex_calls, "extract_with_ocr")
    /\ ex_pc' = "respond"
    /\ UNCHANGED <<ex_request, ex_tesseract, ex_native, ex_native_quality_low,
                   ex_response, bbVars, vdVars, tkVars,
                   gmVars, mpVars, ccVars>>

\* main.py 790-806: the answer.  TESSERACT_AVAILABLE (main.py 99-128) is
\* what the engine's presence was found to be at start-up.
Respond ==
    /\ ex_pc = "respond"
    /\ ex_response' =
         IF ex_raw_data = <<>>
         THEN NoDataFound(ex_tesseract)
         ELSE LET result == validate_data(ex_raw_data,
                                          TableFor(ex_request.selection.label))
              IN  IF HasError(result)
                  THEN HttpError(500, "Table not defined in SQL.")
                  ELSE Extracted(ex_raw_data, result)
    /\ ex_calls' = IF ex_raw_data = <<>> THEN ex_calls
                    ELSE Append(ex_calls, "validate_data")
    /\ ex_pc' = "done"
    /\ UNCHANGED <<ex_request, ex_tesseract, ex_native, ex_raw_data,
                   ex_native_quality_low, ex_ocr_data, ex_cropped,
                   bbVars, vdVars, tkVars,
                   gmVars, mpVars, ccVars>>

NextExtract ==
    \/ LookupLabel
    \/ ExtractImage
    \/ ExtractNative
    \/ OcrWhenEmpty
    \/ OcrWhenLow
    \/ Respond

SpecExtract == InitExtract /\ [][NextExtract]_vars

(***************************************************************************)
(* Claims about /extract                                                   *)
(***************************************************************************)
Sel == ex_request.selection
Done == ex_pc = "done"
IsPdf == ~is_image(ex_request.filename)
LabelMapped == Sel.label \in DOMAIN LABEL_TO_TABLE

PageFound == ~IsPdf \/ IndexValid(DocPages, Sel.page_number - 1)
EmptyLists ==
    /\ ex_response.kind = "json"
    /\ ex_response.raw_data = <<>>
    /\ ex_response.sql_data = <<>>

\* the bbox the first strategy of the request maps the selection to
MappedBbox ==
    IF IsPdf
    THEN LET page == ListItem(DocPages, Sel.page_number - 1)
         IN  SelectionBbox(Sel, page.width, page.height)
    ELSE SelectionBbox(Sel, ImageSize.width, ImageSize.height)

NothingSelected ==
    /\ PageFound => EmptyBbox(MappedBbox)
    /\ ex_cropped = {}
    /\ EmptyLists

\* C3 as stated, of the requests that reach the strategies (mapped label,
\* a page the document has): a selection with view_width = 0, whatever its
\* other fields are, is mapped to a degenerate bbox, no strategy crops the
\* document, and the response holds empty raw and validated lists.
C3_AsStated ==
    (Done /\ LabelMapped /\ PageFound /\ Sel.view_width = R(0))
    => NothingSelected

\* C3, amended: a request with a mapped label and a page the document has,
\* whose selection has view_width = 0 and a fraction rectangle of no width
\* or no height (w_pct = 0 or h_pct = 0), is mapped to a degenerate bbox, no
\* strategy crops the document, and the response holds empty raw and
\* validated lists.
C3_EmptyFractionsSelectNothing ==
    (/\ Done /\ LabelMapped /\ PageFound
     /\ Sel.view_width = R(0)
     /\ (Sel.w_pct = R(0) \/ Sel.h_pct = R(0)))
    => NothingSelected

\* a PDF request with view_width = 0, empty fractions and a pixel rectangle
\* that is not empty, answered with empty lists after the native strategy
\* and both OCR calls returned without cropping
C3_Witness ==
    /\ Done /\ LabelMapped /\ IsPdf /\ PageFound
    /\ Sel.view_width = R(0) /\ Sel.w_pct = R(0)
    /\ Sel.width # R(0) /\ Sel.height # R(0)
    /\ ex_tesseract
    /\ Len(ex_ocr_data) = 2
    /\ ex_cropped = {}
    /\ EmptyLists

Finished == ex_pc \in {"respond", "done"}
OcrAttempted == ex_ocr_data # <<>>
NonEmptyOcrCalls == {i \in DOMAIN ex_ocr_data : ex_ocr_data[i] # <<>>}

\* C7: for a PDF whose native result was judged low-quality and for which
\* OCR was attempted, the final raw result is the OCR output if OCR
\* returned at least one record (the output of the last call that did),
\* and otherwise the native result exactly as the native strategy returned
\* it; a response that carries records carries that result.
C7_OcrReplacesOnlyIfNonEmpty ==
    (Finished /\ IsPdf /\ ex_native_quality_low /\ OcrAttempted)
    => /\ ex_raw_data = IF NonEmptyOcrCalls = {}
                        THEN ex_native
                        ELSE ex_ocr_data[SetMax(NonEmptyOcrCalls)]
       /\ (Done /\ ex_response.kind = "json")
              => ex_response.raw_data = ex_raw_data

\* a single native record with one field and 30 characters of raw text,
\* judged low-quality, survives an OCR that cropped and returned no record
C7_Witness ==
    /\ Done /\ IsPdf
    /\ ex_native = <<NativeRawTextOnly>>
    /\ ex_native_quality_low
    /\ "ocr" \in ex_cropped
    /\ ex_ocr_data = << <<>> >>
    /\ ex_response.kind = "json"
    /\ ex_response.raw_data = <<NativeRawTextOnly>>

\* the native strategy has returned and its result has been judged
NativeJudged ==
    /\ IsPdf /\ LabelMapped
    /\ \/ ex_pc \in {"ocr_empty", "ocr_low", "respond"}
       \/ Done /\ ex_response # Unhandled

HasMarker(row) == HasKey(row, Key_warning) \/ HasKey(row, Key_error)
RawTextLength(row) == Len(Strip(DictGet(row, Key_raw_text, <<>>)))

LowAsStated(native) ==
    \/ native = <<>>
    \/ Len(native) = 1 /\ HasMarker(native[1]) /\ RawTextLength(native[1]) < 50
    \/ Len(native) = 1 /\ KeyCount(native[1]) < 2

LowByFirstRecord(native) ==
    \/ native = <<>>
    \/ native # <<>> /\ HasMarker(native[1]) /\ RawTextLength(native[1]) <= 50
    \/ native # <<>> /\ ~HasMarker(native[1]) /\ KeyCount(native[1]) < 2

\* C8 as stated: the native output is judged low-quality, and OCR is
\* attempted, if and only if the output is empty, or its only record is a
\* warning/error placeholder with under 50 characters of raw text, or its
\* only record has fewer than 2 fields.
C8_AsStated ==
    NativeJudged
    => /\ ex_native_quality_low <=> LowAsStated(ex_native)
       /\ Finished => (OcrAttempted <=> LowAsStated(ex_native))

\* C8, amended: the native output is judged low-quality, and OCR is
\* attempted, if and only if the output is empty, or its first record
\* carries _warning or _error and its raw text, stripped, has at most 50
\* characters, or its first record carries neither and has fewer than 2
\* fields.
C8_QualityGate ==
    NativeJudged
    => /\ ex_native_quality_low <=> LowByFirstRecord(ex_native)
       /\ Finished => (OcrAttempted <=> LowByFirstRecord(ex_native))

\* a placeholder whose raw text has 50 characters between blanks is judged
\* low-quality and OCR is attempted
C8_Witness ==
    /\ Done /\ NativeJudged
    /\ ex_native = <<Placeholder(Text50)>>
    /\ ex_native_quality_low
    /\ OcrAttempted

\* C13: a request whose label is not mapped to a table ends with an error
\* handed to the caller before any strategy or the validation with its
\* schema lookup is called; it never returns records.
C13_UnmappedLabelRejectedFirst ==
    ~LabelMapped =>
        /\ ex_pc \in {"start", "done"}
        /\ ex_calls = <<>>
        /\ ex_cropped = {}
        /\ Done => /\ ex_response.kind = "http_error"
                   /\ ex_response.status = 400
                   /\ ex_response.raw_data = <<>>
                   /\ ex_response.sql_data = <<>>

\* a PDF request with an unmapped label and a selection of half the first
\* page, answered 400 with nothing called
C13_Witness ==
    /\ Done /\ ~LabelMapped /\ IsPdf
    /\ Sel.page_number = 1
    /\ Sel.view_width = R(0) /\ Sel.w_pct = Q(1, 2) /\ Sel.h_pct = Q(1, 2)
    /\ ex_response.status = 400
    /\ ex_calls = <<>>

TableMissing == LabelMapped /\ TableFor(Sel.label) \notin DOMAIN Database
SchemaNotFound == HttpError(500, "Table not defined in SQL.")

C14_NoDataReached ==
    /\ Done /\ TableMissing /\ IsPdf
    /\ "native" \in ex_cropped
    /\ ex_raw_data = <<>>
    /\ ex_response.kind = "json"

PageInRange == Sel.page_number \in 1..Len(DocPages)

\* C15: for every page_number outside 1..pageCount of the PDF, 0 included,
\* the request ends with an error and returns no records read from some
\* other page.
C15_AsStated ==
    (Done /\ IsPdf /\ LabelMapped /\ ~PageInRange) =>
        /\ ex_response.kind = "http_error"
        /\ ex_cropped = {}
        /\ ex_response.raw_data = <<>>

OcrUnavailableNote ==
    "No data found in selection (OCR unavailable: Tesseract not found on server)"

\* C16: when the OCR engine is absent and a request reaches the point where
\* OCR is attempted, OCR is skipped without raising, the request goes on
\* with what the native strategy produced, and the answer is annotated as
\* OCR-unavailable, both when the final result is empty and when a
\* low-quality native result is returned.
C16_AsStated ==
    (Done /\ IsPdf /\ ~ex_tesseract /\ OcrAttempted /\ ex_response.kind = "json")
    => /\ \A i \in DOMAIN ex_ocr_data : ex_ocr_data[i] = <<>>
       /\ "ocr" \notin ex_cropped
       /\ ex_response.raw_data = ex_native
       /\ ex_response.message = OcrUnavailableNote

(***************************************************************************)
(* parse_with_gemini (main.py 132-175).  The LLM call either fails or      *)
(* answers with a text; texts are sequences of characters.  json.loads is  *)
(* modelled on the part of JSON the texts can spell: arrays, the empty     *)
(* object, numbers of the digit 1, and whitespace.                         *)
(***************************************************************************)
\* the character U+0060; a string of the module cannot hold it, it is named
Backtick == "U+0060"
\* main.py 169: the literals "```json" and "```"
FenceJson == <<Backtick, Backtick, Backtick, "j", "s", "o", "n">>
Fence == <<Backtick, Backtick, Backtick>>

DropFirst(s, n) == SubSeq(s, n + 1, Len(s))
StartsWith(s, prefix) ==
    Len(prefix) <= Len(s) /\ SubSeq(s, 1, Len(prefix)) = prefix

\* str.replace(old, ""): every occurrence of old, left to right, is removed
RECURSIVE Remove(_, _)
Remove(s, old) ==
    IF Len(s) < Len(old) THEN s
    ELSE IF StartsWith(s, old) THEN Remove(DropFirst(s, Len(old)), old)
    ELSE <<Head(s)>> \o Remove(Tail(s), old)

\* a cleaning that leaves the fences in
CleanedUnfenced(text) == Strip(text)

\* main.py 169: response.text.strip().replace("```json", "").replace("```", "")
Cleaned(text) == Remove(Remove(Strip(text), FenceJson), Fence)

RECURSIVE SkipWhitespace(_)
SkipWhitespace(s) ==
    IF s # <<>> /\ IsSpace(Head(s)) THEN SkipWhitespace(Tail(s)) ELSE s

RECURSIVE SkipDigits(_)
SkipDigits(s) ==
    IF s # <<>> /\ Head(s) = "1" THEN SkipDigits(Tail(s)) ELSE s

ParseFailed == [ok |-> FALSE, val |-> <<>>, rest |-> <<>>]
Parsed(val, rest) == [ok |-> TRUE, val |-> val, rest |-> rest]
JsonList(items) == [type |-> "list", items |-> items]
JsonObject == [type |-> "dict", items |-> <<>>]
JsonNumber(digits) == [type |-> "number", items |-> digits]

\* json.loads, one value: what it is and the text left after it
RECURSIVE ParseValue(_)
RECURSIVE ParseElements(_, _)
ParseValue(s) ==
    LET t == SkipWhitespace(s)
    IN  IF t = <<>> THEN ParseFailed
        ELSE IF Head(t) = "1"
        THEN Parsed(JsonNumber(Len(t) - Len(SkipDigits(t))), SkipDigits(t))
        ELSE IF Head(t) = "{"
        THEN LET u == SkipWhitespace(Tail(t))
             IN  IF u # <<>> /\ Head(u) = "}" THEN Parsed(JsonObject, Tail(u))
                 ELSE ParseFailed
        ELSE IF Head(t) = "["
        THEN LET u == SkipWhitespace(Tail(t))
             IN  IF u # <<>> /\ Head(u) = "]" THEN Parsed(JsonList(<<>>), Tail(u))
                 ELSE ParseElements(u, <<>>)
        ELSE ParseFailed
ParseElements(s, items) ==
    LET v == ParseValue(s)
        t == SkipWhitespace(v.rest)
    IN  IF ~v.ok \/ t = <<>> THEN ParseFailed
        ELSE IF Head(t) = "," THEN ParseElements(Tail(t), Append(items, v.val))
        ELSE IF Head(t) = "]" THEN Parsed(JsonList(Append(items, v.val)), Tail(t))
        ELSE ParseFailed

\* json.loads: a value and nothing but whitespace after it, else
\* JSONDecodeError
json_loads(s) ==
    LET v == ParseValue(s)
    IN  IF v.ok /\ SkipWhitespace(v.rest) = <<>> THEN v ELSE ParseFailed

\* main.py 142-171: the body of the try statement; the LLM call (168) and
\* json.loads (170) are what can raise in it
TryParse(call) ==
    IF call.failed
    THEN [raised |-> TRUE, data |-> <<>>]
    ELSE LET loaded == json_loads(Cleaned(call.text))
         IN  IF ~loaded.ok
             THEN [raised |-> TRUE, data |-> <<>>]
             ELSE [raised |-> FALSE,
                   data |-> IF loaded.val.type = "list" THEN loaded.val.items
                            ELSE <<loaded.val>>]

\* main.py 138-175: the label check, the try statement and its handler
parse_with_gemini(call, label) ==
    IF NotMapped(TableFor(label))
    THEN [raised |-> FALSE, data |-> <<>>]
    ELSE LET attempt == TryParse(call)
         IN  IF attempt.raised
             THEN [raised |-> FALSE, data |-> <<>>]
             ELSE attempt

\* the texts of the answers: up to MaxSegments pieces in a row
MaxSegments == 4
Segments ==
    {FenceJson, Fence, <<"\n">>, <<"[">>, <<"]">>, <<"{", "}">>, <<"1">>,
     <<",">>, <<"x">>}
RECURSIVE TextsOf(_)
TextsOf(n) ==
    IF n = 0 THEN {<<>>}
    ELSE TextsOf(n - 1) \cup {t \o s : t \in TextsOf(n - 1), s \in Segments}
LlmCalls ==
    {[failed |-> TRUE, text |-> <<>>]}
        \cup {[failed |-> FALSE, text |-> t] : t \in TextsOf(MaxSegments)}

NotParsed == [raised |-> FALSE, data |-> <<>>, pending |-> TRUE]

InitGemini ==
    /\ IdleBbox /\ IdleValidate /\ IdleTable /\ IdleExtract /\ IdleManual /\ IdleConcurrent
    /\ gm_call \in LlmCalls
    /\ gm_label \in Labels
    /\ gm_out = NotParsed

CallParseWithGemini ==
    /\ gm_out = NotParsed
    /\ gm_out' = parse_with_gemini(gm_call, gm_label)
    /\ UNCHANGED <<gm_call, gm_label, bbVars, vdVars, tkVars, exVars, mpVars, ccVars>>

NextGemini == CallParseWithGemini

SpecGemini == InitGemini /\ [][NextGemini]_vars

(***************************************************************************)
(* C17                                                                     *)
(***************************************************************************)
GeminiReturned == gm_out # NotParsed
GeminiMapped == gm_label \in DOMAIN LABEL_TO_TABLE

\* what a fence wraps: the text between an opening ```json or ``` and a
\* closing ```
Opened(text) ==
    IF StartsWith(Strip(text), FenceJson) THEN DropFirst(Strip(text), Len(FenceJson))
    ELSE DropFirst(Strip(text), Len(Fence))
Body(text) == SubSeq(Opened(text), 1, Len(Opened(text)) - Len(Fence))
Wrapped(text) ==
    /\ StartsWith(Strip(text), Fence)
    /\ EndsWith(Opened(text), Fence)
    /\ \A i \in DOMAIN Body(text) : Body(text)[i] # Backtick

\* the records a JSON text stands for: the items of a list, or the one value
RecordsOf(s) ==
    IF ~json_loads(s).ok THEN <<>>
    ELSE IF json_loads(s).val.type = "list" THEN json_loads(s).val.items
    ELSE <<json_loads(s).val>>

\* C17: parse_with_gemini never raises; an answer that is a fence around a
\* JSON text gives the records of that JSON text; a failed LLM call, and an
\* answer whose text is not well-formed JSON once the fences are out of it,
\* give zero records.
C17_FencesStrippedFailuresEmpty ==
    GeminiReturned =>
        /\ ~gm_out.raised
        /\ (GeminiMapped /\ ~gm_call.failed /\ Wrapped(gm_call.text))
            => gm_out.data = RecordsOf(Body(gm_call.text))
        /\ gm_call.failed => gm_out.data = <<>>
        /\ (~gm_call.failed /\ ~json_loads(Cleaned(gm_call.text)).ok)
            => gm_out.data = <<>>

\* a fenced answer "```json\n{}```" has been parsed to its one record
C17_Witness ==
    /\ GeminiReturned /\ GeminiMapped /\ ~gm_call.failed
    /\ gm_call.text = FenceJson \o <<"\n", "{", "}">> \o Fence
    /\ gm_out.data = <<JsonObject>>

\* a failed call and a malformed answer "[1," have each given zero records
C17_FailureReached ==
    /\ GeminiReturned /\ GeminiMapped
    /\ gm_call.failed \/ gm_call.text = <<"[", "1", ",">>
    /\ gm_out.data = <<>>

(***************************************************************************)
(* C18                                                                     *)
(***************************************************************************)
\* the bbox is less than one unit wide or less than one unit high
BelowOneUnit(bbox) ==
    \/ RLt(RSub(bbox[3], bbox[1]), R(1))
    \/ RLt(RSub(bbox[4], bbox[2]), R(1))

\* C18 as stated, of the requests that reach the strategies: when the bbox
\* the selection is mapped to is below one unit in width or in height, no
\* strategy (native, OCR, image) crops the document.
C18_AsStated ==
    (Done /\ LabelMapped /\ PageFound /\ BelowOneUnit(MappedBbox))
    => ex_cropped = {}

(***************************************************************************)
(* C19                                                                     *)
(***************************************************************************)
InUnit(q) == RLe(R(0), q) /\ RLe(q, R(1))
FractionsInUnit ==
    InUnit(Sel.x_pct) /\ InUnit(Sel.y_pct) /\ InUnit(Sel.w_pct) /\ InUnit(Sel.h_pct)

\* the document the bbox is mapped to: the page of the PDF, or the image
MappedDocument ==
    IF IsPdf THEN ListItem(DocPages, Sel.page_number - 1) ELSE ImageSize

\* the first strategy of the request has handed its bbox to page.crop
\* (main.py 463) or image.crop (main.py 392)
HandedToCropping ==
    /\ Done /\ LabelMapped /\ PageFound
    /\ IF IsPdf THEN ~TooSmall(MappedBbox)
       ELSE ex_tesseract /\ ~EmptyBbox(MappedBbox)

Ordered(bbox) == RLe(bbox[1], bbox[3]) /\ RLe(bbox[2], bbox[4])

\* C19 as stated: on the legacy path (no view width given), with x_pct,
\* y_pct, w_pct and h_pct each in [0,1], the bbox handed to cropping has
\* x0 <= x1 and top <= bottom and lies within [0,width] x [0,height] of the
\* document.
C19_AsStated ==
    (HandedToCropping /\ ~UsesViewDimensions(Sel) /\ FractionsInUnit)
    => /\ Ordered(MappedBbox)
       /\ WithinPage(MappedBbox, MappedDocument.width, MappedDocument.height)

(***************************************************************************)
(* C20                                                                     *)
(***************************************************************************)
\* main.py 553: "if not tables", the test that lets extract_tables run
FallsBackToExtractTables(run) == run.tables = <<>>

\* C20 as stated, for a CASING label: when the cropped region holds at least
\* NUM_COLS words and the clustering has put them into rows, those rows are
\* the table the records are built from, and extract_tables is not used.
C20_AsStated ==
    (tk_run # NotRun /\ Len(tk_words) >= NUM_COLS /\ tk_run.rows # <<>>)
    => ~FallsBackToExtractTables(tk_run)

(***************************************************************************)
(* C21                                                                     *)
(***************************************************************************)
Clustered == tk_run # NotRun /\ tk_run.clustered
Texts(words) == {words[i].text : i \in DOMAIN words}

\* the rows that hold the token
RowsOf(run, text) ==
    {r \in DOMAIN run.rows : \E i \in DOMAIN run.rows[r] : run.rows[r][i] = text}

\* every token is in one row, at one place of it
EachTokenInOneRow(run, words) ==
    /\ \A t \in Texts(words) : Cardinality(RowsOf(run, t)) = 1
    /\ \A r \in DOMAIN run.rows :
         \A i, j \in DOMAIN run.rows[r] :
            run.rows[r][i] = run.rows[r][j] => i = j

\* every token has one column of 0..NUM_COLS-1, or none
EachTokenInOneColumnOrNone(run, words) ==
    /\ DOMAIN run.col = Texts(words)
    /\ \A t \in Texts(words) : run.col[t] \in (0..(NUM_COLS - 1)) \cup {NoColumn}

TopOf(words, text) == (CHOOSE w \in {words[i] : i \in DOMAIN words} : w.text = text).top

\* the rows follow one another by the top of their first token
RowsOrderedByTop(run, words) ==
    \A r, s \in DOMAIN run.rows :
        r < s => TopOf(words, run.rows[r][1]) <= TopOf(words, run.rows[s][1])

\* the table handed on holds one list of NUM_COLS cells for each row
RowsOfCells(run) ==
    /\ run.tables # <<>>
    /\ Len(run.tables[1]) = Len(run.rows)
    /\ \A r \in DOMAIN run.tables[1] : Len(run.tables[1][r]) = NUM_COLS

\* C21 as stated: after one run of the clustering over NUM_COLS or more
\* tokens, every token is in exactly one row, every token has exactly one
\* column or none, the rows are ordered by the top of their first token, and
\* every row has been reconstructed as a list of exactly NUM_COLS cells.
C21_AsStated ==
    Clustered =>
        /\ EachTokenInOneRow(tk_run, tk_words)
        /\ EachTokenInOneColumnOrNone(tk_run, tk_words)
        /\ RowsOrderedByTop(tk_run, tk_words)
        /\ RowsOfCells(tk_run)

(***************************************************************************)
(* parse_text_manually (main.py 177-214).  A dict is a function from its   *)
(* keys to its values; keys, values and cells are sequences of characters. *)
(***************************************************************************)
\* main.py 192: the literal 100; 196: the literal 50; 200: the literal 5;
\* 210: the literal 2
MaxPairLineLength == 100
MaxKeyLength == 50
MinRowLength == 5
MinCells == 2

\* the first place of the character in s, 0 if it has none
FirstIndex(s, ch) ==
    IF \E i \in DOMAIN s : s[i] = ch
    THEN SetMin({i \in DOMAIN s : s[i] = ch})
    ELSE 0

\* str.split(ch): the pieces between the occurrences of one character
RECURSIVE SplitOn(_, _)
SplitOn(s, ch) ==
    IF FirstIndex(s, ch) = 0 THEN <<s>>
    ELSE <<SubSeq(s, 1, FirstIndex(s, ch) - 1)>>
            \o SplitOn(DropFirst(s, FirstIndex(s, ch)), ch)

\* main.py 197: str.replace(" ", "_")
SpacesToUnderscores(s) == [i \in DOMAIN s |-> IF s[i] = " " THEN "_" ELSE s[i]]

\* main.py 197: k.lower().replace(" ", "_")
KeyOf(k) == SpacesToUnderscores(LowerSeq(k))

\* the pattern \s{2,}|\t matches, left to right, every whole run of two or
\* more whitespace characters and every tab that stands alone: s[i] is
\* within a match
InSeparator(s, i) ==
    /\ IsSpace(s[i])
    /\ \/ s[i] = "\t"
       \/ i > 1 /\ IsSpace(s[i - 1])
       \/ i < Len(s) /\ IsSpace(s[i + 1])

\* main.py 208: re.split(r'\s{2,}|\t', row_text), the pieces that are not
\* empty: each runs from a character outside the matches to the next match
ReSplit(s) ==
    LET starts == {i \in DOMAIN s :
                    ~InSeparator(s, i) /\ (i = 1 \/ InSeparator(s, i - 1))}
        end(i) == SetMin({j \in i..Len(s) : j = Len(s) \/ InSeparator(s, j + 1)})
        nth(n) == CHOOSE i \in starts : Cardinality({k \in starts : k <= i}) = n
    IN  [n \in 1..Cardinality(starts) |-> SubSeq(s, nth(n), end(nth(n)))]

\* main.py 208: the pieces stripped, the empty ones left out
CellsOf(row_text) ==
    LET pieces == ReSplit(row_text)
        stripped == [i \in DOMAIN pieces |-> Strip(pieces[i])]
    IN  SelectSeq(stripped, LAMBDA c : c # <<>>)

\* str(i) of a natural number
RECURSIVE IntToStr(_)
IntToStr(i) ==
    LET digit == <<"0", "1", "2", "3", "4", "5", "6", "7", "8", "9">>[(i % 10) + 1]
    IN  IF i < 10 THEN <<digit>> ELSE Append(IntToStr(i \div 10), digit)

\* main.py 211: f"col_{i}"
ColKey(i) == <<"c", "o", "l", "_">> \o IntToStr(i)

\* main.py 211: {f"col_{i}": cell for i, cell in enumerate(cells)}
RowDict(cells) ==
    [k \in {ColKey(i - 1) : i \in DOMAIN cells} |->
        cells[CHOOSE i \in DOMAIN cells : ColKey(i - 1) = k]]

\* a test that takes every line with a colon, whatever its length
IsPairLineAnyLength(line) == FirstIndex(line, ":") > 0

\* main.py 192: ':' in line and len(line) < 100
IsPairLine(line) == FirstIndex(line, ":") > 0 /\ Len(line) < MaxPairLineLength

\* main.py 193-195: line.split(':', 1), both parts stripped
PairKey(line) == Strip(SubSeq(line, 1, FirstIndex(line, ":") - 1))
PairValue(line) == Strip(DropFirst(line, FirstIndex(line, ":")))

\* main.py 196: k and v and len(k) < 50
PairKept(line) ==
    PairKey(line) # <<>> /\ PairValue(line) # <<>> /\ Len(PairKey(line)) < MaxKeyLength

\* main.py 187-201: one pass of the loop over the lines
ReadLine(acc, raw_line) ==
    LET line == Strip(raw_line)
    IN  IF line = <<>> THEN acc
        ELSE IF IsPairLine(line)
        THEN IF PairKept(line)
             THEN [acc EXCEPT !.kv_data =
                       DictSet(@, KeyOf(PairKey(line)), PairValue(line))]
             ELSE acc
        ELSE IF Len(line) > MinRowLength
        THEN [acc EXCEPT !.table_rows = Append(@, line)]
        ELSE acc

RECURSIVE ReadLines(_, _)
ReadLines(lines, n) ==
    IF n = 0 THEN [kv_data |-> EmptyDict, table_rows |-> <<>>]
    ELSE ReadLine(ReadLines(lines, n - 1), lines[n])

\* main.py 206-212: the rows of two or more cells, as dicts
RECURSIVE RowDicts(_)
RowDicts(table_rows) ==
    IF table_rows = <<>> THEN <<>>
    ELSE (IF Len(CellsOf(Head(table_rows))) >= MinCells
          THEN <<RowDict(CellsOf(Head(table_rows)))>>
          ELSE <<>>) \o RowDicts(Tail(table_rows))

\* main.py 177-214
parse_text_manually(text) ==
    LET lines == SplitOn(text, "\n")
        read == ReadLines(lines, Len(lines))
    IN  (IF DOMAIN read.kv_data # {} THEN <<read.kv_data>> ELSE <<>>)
            \o RowDicts(read.table_rows)

\* the lines of the texts
Chars(str, n) == [i \in 1..n |-> str]
Line_pair == <<"k", ":", "v">>
Line_pair_spaced == <<" ", "K", " ", "k", ":", " ", "v", " ">>
Line_pair_again == <<"k", ":", "w">>
Line_no_value == <<"k", ":">>
Line_no_key == <<":", "v">>
Line_long_key == Chars("y", MaxKeyLength) \o <<":", "v">>
Line_long_pair == <<"k", ":", "v", " ", " ">> \o Chars("x", MaxPairLineLength - 5)
Line_longest_pair == <<"k", ":">> \o Chars("x", MaxPairLineLength - 3)
Line_two_cells == <<"a", "a", "a", " ", " ", "b", "b", "b">>
Line_tab_cells == <<"a", "a", "a", "\t", "b", "b", "b">>
Line_short_cells == <<"a", " ", " ", "b">>
Line_one_space == <<"a", "a", "a", " ", "b", "b", "b">>
Line_blank == <<" ", " ">>
Line_pair_cells == <<"k", "k", ":", "v", " ", " ", "w">>
LineChoices ==
    {Line_pair, Line_pair_spaced, Line_pair_again, Line_no_value, Line_no_key,
     Line_long_key, Line_long_pair, Line_longest_pair, Line_two_cells,
     Line_tab_cells, Line_short_cells, Line_one_space, Line_blank,
     Line_pair_cells}

MaxLines == 2

\* the texts of up to MaxLines lines, "\n" between them
RECURSIVE TextsOfLines(_)
TextsOfLines(n) ==
    IF n = 0 THEN {<<>>}
    ELSE IF n = 1 THEN LineChoices
    ELSE {t \o <<"\n">> \o l : t \in TextsOfLines(n - 1), l \in LineChoices}
ManualTexts == UNION {TextsOfLines(n) : n \in 0..MaxLines}

NotParsedManually == [called |-> FALSE, data |-> <<>>]

InitManual ==
    /\ IdleBbox /\ IdleValidate /\ IdleTable /\ IdleExtract /\ IdleGemini
    /\ IdleConcurrent
    /\ mp_text \in ManualTexts
    /\ mp_out = NotParsedManually

CallParseTextManually ==
    /\ ~mp_out.called
    /\ mp_out' = [called |-> TRUE, data |-> parse_text_manually(mp_text)]
    /\ UNCHANGED <<mp_text, bbVars, vdVars, tkVars, exVars, gmVars, ccVars>>

NextManual == CallParseTextManually

SpecManual == InitManual /\ [][NextManual]_vars

(***************************************************************************)
(* C22                                                                     *)
(***************************************************************************)
ManualReturned == mp_out.called
ManualData == mp_out.data

\* the lines of the text that are not blank, stripped, in order
TextLines ==
    LET lines == SplitOn(mp_text, "\n")
    IN  SelectSeq([i \in DOMAIN lines |-> Strip(lines[i])], LAMBDA l : l # <<>>)

HasColon(line) == \E i \in DOMAIN line : line[i] = ":"
BeforeColon(line) == Strip(SubSeq(line, 1, FirstIndex(line, ":") - 1))
AfterColon(line) == Strip(SubSeq(line, FirstIndex(line, ":") + 1, Len(line)))
SplitsIntoCells(line) == Len(CellsOf(line)) >= 2

\* the record is the positional record of the line
IsRowOf(record, line) == record = RowDict(CellsOf(line))

\* C22 as stated: every line with a colon has its key in the key:value
\* record and is no positional record, and every line without a colon that
\* splits into two or more cells is a positional record.
C22_AsStated ==
    ManualReturned =>
        \A n \in DOMAIN TextLines :
            LET line == TextLines[n]
            IN  IF HasColon(line)
                THEN /\ ManualData # <<>>
                     /\ KeyOf(BeforeColon(line)) \in DOMAIN ManualData[1]
                     /\ SplitsIntoCells(line)
                          => \A r \in DOMAIN ManualData : ~IsRowOf(ManualData[r], line)
                ELSE SplitsIntoCells(line)
                          => \E r \in DOMAIN ManualData : IsRowOf(ManualData[r], line)

\* a line that gives a pair: a colon, fewer than 100 characters, a key and a
\* value that are not empty, a key of fewer than 50 characters
GivesPair(line) ==
    /\ HasColon(line) /\ Len(line) < 100
    /\ BeforeColon(line) # <<>> /\ AfterColon(line) # <<>>
    /\ Len(BeforeColon(line)) < 50

\* a line that gives a positional record: no colon or 100 characters and
\* more, more than 5 characters, two or more cells
GivesRow(line) ==
    /\ ~HasColon(line) \/ Len(line) >= 100
    /\ Len(line) > 5
    /\ SplitsIntoCells(line)

PairPlaces == {n \in DOMAIN TextLines : GivesPair(TextLines[n])}
PairKeys == {KeyOf(BeforeColon(TextLines[n])) : n \in PairPlaces}
\* the key:value record: each key with the value of the last line that has it
ExpectedPairs ==
    [k \in PairKeys |->
        AfterColon(TextLines[SetMax({n \in PairPlaces :
                                        KeyOf(BeforeColon(TextLines[n])) = k})])]
ExpectedRows ==
    LET lines == SelectSeq(TextLines, GivesRow)
    IN  [r \in DOMAIN lines |-> RowDict(CellsOf(lines[r]))]

\* C22, amended: the result is the key:value record, if any line gives a
\* pair, followed by one positional record for each line that gives a row,
\* in the order of the lines.  A line gives a pair if it has a colon, fewer
\* than 100 characters, a non-empty key of fewer than 50 characters before
\* the first colon and a non-empty value after it; the key is lower-cased
\* with "_" for each space, and a later line of the same key replaces the
\* value.  A line gives a row if it has no colon or 100 characters and more,
\* has more than 5 characters and splits into two or more cells on runs of
\* two or more whitespace characters or on a tab.  Every other line is left
\* out.
C22_PairsThenRows ==
    ManualReturned =>
        ManualData = (IF PairPlaces # {} THEN <<ExpectedPairs>> ELSE <<>>)
                        \o ExpectedRows

\* a pair line and a colon line of 100 characters read as a positional row
C22_Witness ==
    /\ ManualReturned
    /\ mp_text = Line_pair_spaced \o <<"\n">> \o Line_long_pair
    /\ Len(ManualData) = 2
    /\ ManualData[1] = (<<"k", "_", "k">> :> <<"v">>)
    /\ ManualData[2][ColKey(0)] = <<"k", ":", "v">>

\* a colon line without a value has been left out
C22_DroppedReached ==
    /\ ManualReturned
    /\ mp_text = Line_no_value \o <<"\n">> \o Line_two_cells
    /\ Len(ManualData) = 1

(***************************************************************************)
(* Two requests served by one process.  Every endpoint is an "async def"   *)
(* whose body holds no await (main.py 735-806, 897-927), so the event loop *)
(* runs the body of a handler from its first statement to its return       *)
(* before it runs anything else: a handler is one step.  What /export      *)
(* returns is a FileResponse on a path (main.py 927); the framework reads  *)
(* the file when it sends the response, after the handler has returned,    *)
(* and that is a step of its own.  The state the requests share: the       *)
(* module-level MetaData of database.py 21, the file DEBUG_CROP.png of     *)
(* main.py 312 and 395, and the export file of each table (main.py 924).   *)
(***************************************************************************)
RequestIds == {1, 2}

\* database.py 228-251 on the shared MetaData: what is left in it, and the
\* lookup's result.  PostgreSQL: cleared, the tables come from an inspector
\* (231-242).  SQLite: cleared, reflected, and looked up (245-251).
SchemaLookup(metadata, postgres, table_name) ==
    LET cleared == {}
        reflected == IF postgres THEN cleared ELSE cleared \cup DOMAIN Database
        known == IF postgres THEN DOMAIN Database ELSE reflected
    IN  [metadata |-> reflected,
         result |-> IF table_name \in known
                    THEN [found |-> TRUE, columns |-> Database[table_name]]
                    ELSE [found |-> FALSE, columns |-> <<>>]]

\* the responses
SchemaResponse(result) ==
    IF result.found
    THEN [status |-> 200, body |-> "records", columns |-> result.columns]
    ELSE [status |-> 500, body |-> "error", columns |-> <<>>]
NoDataResponse == [status |-> 200, body |-> "No data found in selection", columns |-> <<>>]
FileSent(content) == [status |-> 200, body |-> content, columns |-> <<>>]
NotAnswered == [status |-> 0, body |-> "none", columns |-> <<>>]

\* the requests: /extract with the table of its label, whether a strategy
\* saves a crop for OCR and whether the strategies return records;
\* /export with a table and the valid rows to write
ExtractRequests ==
    {[kind |-> "extract", table_name |-> t, ocr |-> o, has_data |-> d, rows |-> "none"] :
        t \in {"wcr_casing", "wcr_swc"}, o \in BOOLEAN, d \in BOOLEAN}
ExportRequests ==
    {[kind |-> "export", table_name |-> t, ocr |-> FALSE, has_data |-> TRUE, rows |-> w] :
        t \in {"wcr_casing", "wcr_swc"}, w \in {"rows A", "rows B"}}

\* main.py 924-925: df.to_csv(output_path) on f"{table_name}_export.csv"
ExportFileWritten(files, req) == [files EXCEPT ![req.table_name] = req.rows]

InitConcurrent ==
    /\ IdleBbox /\ IdleValidate /\ IdleTable /\ IdleExtract /\ IdleGemini
    /\ IdleManual
    /\ cc_requests \in [RequestIds -> ExtractRequests \cup ExportRequests]
    /\ cc_postgres \in BOOLEAN
    /\ cc_pc = [r \in RequestIds |-> "received"]
    /\ cc_metadata = {}
    /\ cc_debug_crop = 0
    /\ cc_export_files = [t \in {"wcr_casing", "wcr_swc"} |-> "none"]
    /\ cc_out = [r \in RequestIds |-> NotAnswered]

\* main.py 735-806, the whole handler: a strategy that crops for OCR saves
\* DEBUG_CROP.png; validate_data is called if there are records and looks
\* the schema up
HandleExtract(r) ==
    LET req == cc_requests[r]
        looked == SchemaLookup(cc_metadata, cc_postgres, req.table_name)
    IN  /\ cc_pc[r] = "received"
        /\ req.kind = "extract"
        /\ cc_debug_crop' = IF req.ocr THEN r ELSE cc_debug_crop
        /\ IF req.has_data
           THEN /\ cc_metadata' = looked.metadata
                /\ cc_out' = [cc_out EXCEPT ![r] = SchemaResponse(looked.result)]
           ELSE /\ cc_out' = [cc_out EXCEPT ![r] = NoDataResponse]
                /\ UNCHANGED cc_metadata
        /\ cc_pc' = [cc_pc EXCEPT ![r] = "done"]
        /\ UNCHANGED <<cc_requests, cc_postgres, cc_export_files,
                       bbVars, vdVars, tkVars, exVars, gmVars, mpVars>>

\* main.py 897-927, the whole handler: the schema is looked up (an unknown
\* table raises ValueError, which nothing catches), the file of the table is
\* written and a FileResponse on its path is returned
HandleExport(r) ==
    LET req == cc_requests[r]
        looked == SchemaLookup(cc_metadata, cc_postgres, req.table_name)
    IN  /\ cc_pc[r] = "received"
        /\ req.kind = "export"
        /\ cc_metadata' = looked.metadata
        /\ IF looked.result.found
           THEN /\ cc_export_files' = ExportFileWritten(cc_export_files, req)
                /\ cc_pc' = [cc_pc EXCEPT ![r] = "sending"]
                /\ UNCHANGED cc_out
           ELSE /\ cc_out' = [cc_out EXCEPT ![r] = SchemaResponse(looked.result)]
                /\ cc_pc' = [cc_pc EXCEPT ![r] = "done"]
                /\ UNCHANGED cc_export_files
        /\ UNCHANGED <<cc_requests, cc_postgres, cc_debug_crop,
                       bbVars, vdVars, tkVars, exVars, gmVars, mpVars>>

\* main.py 927: the FileResponse is sent; the file is read now
SendFile(r) ==
    /\ cc_pc[r] = "sending"
    /\ cc_out' = [cc_out EXCEPT
                    ![r] = FileSent(cc_export_files[cc_requests[r].table_name])]
    /\ cc_pc' = [cc_pc EXCEPT ![r] = "done"]
    /\ UNCHANGED <<cc_requests, cc_postgres, cc_metadata, cc_debug_crop,
                   cc_export_files,
                   bbVars, vdVars, tkVars, exVars, gmVars, mpVars>>

NextConcurrent ==
    \E r \in RequestIds : HandleExtract(r) \/ HandleExport(r) \/ SendFile(r)

SpecConcurrent == InitConcurrent /\ [][NextConcurrent]_vars

(***************************************************************************)
(* C23                                                                     *)
(***************************************************************************)
\* what the request is answered when no other request is served
OutcomeAlone(req) ==
    IF req.kind = "extract"
    THEN IF req.has_data THEN SchemaResponse(get_table_schema(req.table_name))
         ELSE NoDataResponse
    ELSE IF get_table_schema(req.table_name).found THEN FileSent(req.rows)
         ELSE SchemaResponse(get_table_schema(req.table_name))

\* C23 as stated: however two requests that read the schema (/extract,
\* /export) are interleaved, each is answered what it is answered when it is
\* served alone; nothing a request clears, reflects or overwrites reaches
\* the other.
C23_AsStated ==
    \A r \in RequestIds :
        cc_pc[r] = "done" => cc_out[r] = OutcomeAlone(cc_requests[r])

(***************************************************************************)
(* C24                                                                     *)
(***************************************************************************)
\* the 0-based seed groups of the run that hold the token
SeedsOf(run, text) ==
    {c - 1 : c \in {d \in DOMAIN run.seeds :
                        \E i \in DOMAIN run.seeds[d] : run.seeds[d][i] = text}}
SeedSizes(run) == {Len(run.seeds[c]) : c \in DOMAIN run.seeds}

\* the doubled centre of the word lies between the doubled ends of the bound
CentreWithin(word, bound) ==
    2 * bound[1] <= word.x0 + word.x1 /\ word.x0 + word.x1 <= 2 * bound[2]

\* C24: when the clustering runs (NUM_COLS or more tokens, each with
\* x0 <= x1), every seed group holds a token and the sizes of the groups
\* differ by at most 1, no bound is the sentinel, every token's centre lies
\* within the bound of its own seed group, and every token gets a column,
\* which is its seed group or one of lower index.
C24_EveryTokenGetsAColumn ==
    Clustered =>
        /\ DOMAIN tk_run.seeds = 1..NUM_COLS
        /\ \A c \in 1..NUM_COLS : tk_run.seeds[c] # <<>>
        /\ SetMax(SeedSizes(tk_run)) - SetMin(SeedSizes(tk_run)) <= 1
        /\ \A c \in 1..NUM_COLS : tk_run.bounds[c][1] # SentinelX
        /\ \A i \in DOMAIN tk_words :
             LET w == tk_words[i]
                 seeds == SeedsOf(tk_run, w.text)
             IN  /\ Cardinality(seeds) = 1
                 /\ \A k \in seeds :
                      /\ CentreWithin(w, tk_run.bounds[k + 1])
                      /\ tk_run.col[w.text] # NoColumn
                      /\ tk_run.col[w.text] <= k

\* ten tokens clustered, one of them put into a column below its seed group
C24_Witness ==
    /\ Clustered
    /\ Len(tk_words) = 10
    /\ \E i \in DOMAIN tk_words :
         \E k \in SeedsOf(tk_run, tk_words[i].text) :
            tk_run.col[tk_words[i].text] # NoColumn /\ tk_run.col[tk_words[i].text] < k

(***************************************************************************)
(* C25                                                                     *)
(***************************************************************************)
CallsOf(name) == {i \in DOMAIN ex_calls : ex_calls[i] = name}

\* every call of the OCR strategy comes after the call of the native one
NativeBeforeOcr ==
    \A i \in CallsOf("extract_with_ocr") :
        \E j \in CallsOf("extract_from_region") : j < i

\* C25 as stated: within one request on a PDF the native strategy is called
\* before the OCR strategy, and the OCR strategy is called at most once,
\* whatever the native strategy returned.
C25_AsStated ==
    IsPdf =>
        /\ NativeBeforeOcr
        /\ Cardinality(CallsOf("extract_with_ocr")) <= 1

====
